---- MODULE Spec2Model ----
(***************************************************************************)
(* Paper-trading ledger of vardhin/stockapi: the wallet, the holdings and  *)
(* the two transaction logs kept by UserStockDatabase, driven through the  *)
(* userUtils entry points addUserBalance, removeUserBalance, buyStock and  *)
(* sellStock.                                                              *)
(*                                                                         *)
(* The repository holds two implementations of UserStockDatabase: the one  *)
(* built on runTransaction (src/stockUtils.js:1254-1753, variant "tx") and *)
(* the callback-nested one (src/unnamed/part_001, variant "cb").  userUtils*)
(* loads one of them as ./userdb; `variant` says which.                    *)
(*                                                                         *)
(* A call is a process that advances one database round trip at a time:    *)
(* JavaScript runs a handler without preemption up to the next await, so   *)
(* the code between two round trips belongs to the step of the round trip  *)
(* whose result it consumes.  Every query opens its own connection         *)
(* (getConnection), so two calls interleave between any two round trips.   *)
(* SQLite executes a BEGIN..COMMIT group of one connection in isolation:   *)
(* it takes effect as a whole at COMMIT or not at all.                     *)
(*                                                                         *)
(* Money amounts, prices and quantities are integers; average_price and    *)
(* invested_amount are exact rationals <<numerator, denominator>> (the     *)
(* code divides), i.e. the rounding of JavaScript doubles is not modelled. *)
(*                                                                         *)
(* The quote cache (StockDatabase, src/unnamed/part_003) is a database of  *)
(* its own.  getSimpleStockData and getCachedQuote are modelled over the   *)
(* quotes table and a clock that counts minutes; QuoteSpec runs them with  *)
(* the ledger idle, Spec and SeqSpec run the ledger with the cache idle.   *)
(* In the ledger specifications a price fetch of buyStock, sellStock and   *)
(* getUserPortfolio is a choice among the outcomes of getSimpleStockData.  *)
(*                                                                         *)
(* The other tables of StockDatabase are modelled as sets of rows:         *)
(* CacheSpec runs cacheHistoricalData and cleanExpiredCache over           *)
(* historical_data and cache_metadata, SearchSpec runs searchStocks over   *)
(* the local index and search_cache, CompareSpec runs compareStocks over   *)
(* the quote cache.  Timestamps of these tables are texts, compared as     *)
(* SQLite compares them; their clock advances by half hours around the     *)
(* midnight between day 0 and day 1.                                       *)
(***************************************************************************)
EXTENDS Integers, Sequences, FiniteSets, TLC

\* ---------------------------------------------------------------- bounds
MaxCalls == 3
MaxAmount == 2
MaxQuantity == 2
MaxPrice == 2
InitialDeposit == 5
MaxPayloads == 2
MaxTime == 6
MaxQuoteCalls == 2
MaxOverlapCalls == 2
MaxStoreCalls == 2
MaxSearchCalls == 2
MaxHistCalls == 2
MaxSignins == 3
MaxAuthClock == 1460
MaxClock == 1470

Procs == {1, 2}
USER == "u1"
Symbols == {"TCS", "INFY"}
\* inputs: an invalid value (0), the smallest valid one and the largest
Amounts == {0, MaxAmount}
Quantities == {0, 1, MaxQuantity}
\* 0 stands for a price that is absent (null, undefined or 0: the code tests
\* it with !stockPrice, which treats the three alike)
Prices == {0, MaxPrice}
\* what getSimpleStockData yields: -1 it throws, 0 a quote without
\* currentPrice, else currentPrice
FetchOutcomes == Prices \cup {-1}

\* ------------------------------------------------- exact rational numbers
RECURSIVE GCD(_, _)
GCD(a, b) == IF b = 0 THEN a ELSE GCD(b, a % b)

Abs(x) == IF x < 0 THEN -x ELSE x

Rat(n, d) ==
    LET g == GCD(Abs(n), Abs(d))
        s == IF d < 0 THEN -1 ELSE 1
    IN  <<(s * n) \div g, (s * d) \div g>>

RatOfInt(i) == <<i, 1>>
RatAdd(x, y) == Rat(x[1] * y[2] + y[1] * x[2], x[2] * y[2])
RatMul(x, y) == Rat(x[1] * y[1], x[2] * y[2])
RatDiv(x, y) == Rat(x[1] * y[2], x[2] * y[1])

\* ----------------------------------------------------------------- state
VARIABLES
    variant,              \* "tx" or "cb": the UserStockDatabase behind ./userdb
    user_wallets,         \* table: sequence of rows [user_id, balance]
    portfolio_holdings,   \* table: rows [user_id, symbol, quantity, average_price, invested_amount]
    stock_transactions,   \* table: rows [user_id, symbol, transaction_type, quantity, price, total_amount]
    wallet_transactions,  \* table: rows [user_id, transaction_type, amount, balance_after]
    pc,                   \* per call slot: the round trip the call waits for
    op,                   \* per call slot: the entry point and its arguments
    loc,                  \* per call slot: the handler's local variables
    res,                  \* per call slot: the result object returned to the caller
    pre,                  \* per call slot: the ledger as it was when the call began
    ncalls,               \* calls begun so far
    now,                  \* the clock of the quote store, in minutes
    quotes,               \* table of the quote cache: rows [symbol, ..., last_updated]
    fetch,                \* the getSimpleStockData call: position, locals, result
    lookup,               \* the last getCachedQuote call made on its own
    historical_data,      \* table: rows [symbol, date, period, interval_type, ..., created_at]
    cache_metadata,       \* table: rows [cache_key, ..., expires_at, hit_count]
    search_cache,         \* table: rows [query, results, result_count, source, expires_at]
    stocks,               \* the local search index: rows [symbol, search_terms]
    storeCall,            \* the last StockDatabase method called on its own
    search,               \* the searchStocks call: position, locals, result
    compare,              \* the compareStocks call: position, locals, result
    hist,                 \* the getHistoricalData call: position, locals, result
    login_attempts,       \* table of the auth database: rows [email, success, attempted_at]
    auth                  \* the signin call: arguments and outcome

vars == <<variant, user_wallets, portfolio_holdings, stock_transactions,
          wallet_transactions, pc, op, loc, res, pre, ncalls, now, quotes, fetch, lookup,
          historical_data, cache_metadata, search_cache, stocks, storeCall, search, compare,
          hist, login_attempts, auth>>

\* the quote cache and its callers; the ledger is a database of its own
quoteVars == <<now, quotes, fetch, lookup>>
ledgerVars == <<variant, user_wallets, portfolio_holdings, stock_transactions,
                wallet_transactions, pc, op, loc, res, pre, ncalls>>

\* the other tables of the stock database and the callers of their methods
cacheVars == <<historical_data, cache_metadata, search_cache, stocks, storeCall, search, compare>>

\* the getHistoricalData call, and the auth database with its signin call
authVars == <<hist, login_attempts, auth>>

db == <<user_wallets, portfolio_holdings, stock_transactions, wallet_transactions>>

\* an INSERT that leaves only the new row in the table
InsertOverwriting(tbl, row) == <<row>>

\* INSERT INTO a log table: the row goes after the rows that are there
Insert(tbl, row) == Append(tbl, row)

\* a user_wallets row as INSERT writes it: the aggregate columns are not
\* among the columns named, so they take DEFAULT 0.00 (total_current_value
\* and total_profit_loss are written by no statement and left out)
WalletRow(u, b) == [user_id |-> u, balance |-> b, total_invested |-> <<0, 1>>]

\* ---------------------------------------------------------- table access
WalletRows(u) == SelectSeq(user_wallets, LAMBDA r : r.user_id = u)

\* parseFloat(wallet.balance) || 0 of the user's wallet row; 0 without a row
Balance == IF WalletRows(USER) = <<>> THEN 0 ELSE WalletRows(USER)[1].balance

HoldingRows(tbl, u, s) == SelectSeq(tbl, LAMBDA r : r.user_id = u /\ r.symbol = s)

SetBalance(tbl, u, b) ==
    [i \in 1..Len(tbl) |-> IF tbl[i].user_id = u THEN [tbl[i] EXCEPT !.balance = b] ELSE tbl[i]]

WalletTxRow(u, type, amount, after) ==
    [user_id |-> u, transaction_type |-> type, amount |-> amount, balance_after |-> after]

StockTxRow(u, s, type, q, p) ==
    [user_id |-> u, symbol |-> s, transaction_type |-> type, quantity |-> q,
     price |-> p, total_amount |-> q * p]

HoldingRow(u, s, q, avg, inv) ==
    [user_id |-> u, symbol |-> s, quantity |-> q, average_price |-> avg, invested_amount |-> inv,
     current_price |-> <<0, 1>>]

\* getPortfolio: the holdings rows of a user
HoldingsOf(u) == SelectSeq(portfolio_holdings, LAMBDA r : r.user_id = u)

Snapshot ==
    [balance |-> Balance, wallets |-> user_wallets, holdings |-> portfolio_holdings,
     stock_transactions |-> stock_transactions, wallet_transactions |-> wallet_transactions]

\* ------------------------------------------------------------ call slots
NoOp == [name |-> "none", amount |-> 0, symbol |-> "", quantity |-> 0, pricePerShare |-> 0]
NoLoc == [ret |-> "", type |-> "", amount |-> 0, stockPrice |-> 0, newBalance |-> 0, holding |-> <<>>,
          fetches |-> 0, fetched |-> 0, stockPrices |-> <<>>]
NoRes == [success |-> FALSE, error |-> ""]
Ok == [success |-> TRUE, error |-> ""]
Fail(msg) == [success |-> FALSE, error |-> msg]

Running(p) == pc[p] \notin {"idle", "done"}

\* a request takes the lowest free slot (slots are interchangeable); a slot
\* is free again once its call has returned its result
FreeSlot(p) == ~Running(p) /\ \A q \in Procs : q < p => Running(q)

CanBegin(p) == FreeSlot(p) /\ ncalls < MaxCalls

Finish(p, r) ==
    /\ pc' = [pc EXCEPT ![p] = "done"]
    /\ res' = [res EXCEPT ![p] = r]

Goto(p, label) ==
    /\ pc' = [pc EXCEPT ![p] = label]
    /\ UNCHANGED res

\* a balance test with the comparison turned round
InsufficientFundsReversed(balance, required) == balance > required

\* ------------------------------------------------- wallet: pure functions
\* the balance test of removeUserBalance, userUtils.buyStock and
\* UserStockDatabase.buyStock: wallet.balance < amount
InsufficientFunds(balance, required) == balance < required

IsDebit(type) == type \in {"WITHDRAWAL", "STOCK_PURCHASE"}

\* updateWalletBalance: the balance the wallet row is set to
NewBalance(currentBalance, amount, type) ==
    IF type \in {"DEPOSIT", "STOCK_SALE"}
    THEN currentBalance + amount
    ELSE currentBalance - amount

\* updateWalletBalance rejects a debit that would leave less than nothing
Overdrawn(newBalance, type) == IsDebit(type) /\ newBalance < 0

\* INSERT OR REPLACE INTO user_wallets (callback-nested variant)
ReplaceWallet(tbl, u, b) ==
    Append(SelectSeq(tbl, LAMBDA r : r.user_id # u), WalletRow(u, b))

\* the first round trip of updateWalletBalance: the runTransaction variant
\* reads the wallet through getWalletBalance, the callback-nested variant
\* reads, writes and logs inside one BEGIN..COMMIT group
UwbEntry == IF variant = "tx" THEN "gwb_select" ELSE "uwb_serial"

\* ------------------------------------------------- userUtils entry points
Begin(p, o, l) ==
    /\ CanBegin(p)
    /\ ncalls' = ncalls + 1
    /\ op' = [op EXCEPT ![p] = o]
    /\ loc' = [loc EXCEPT ![p] = l]
    /\ pre' = [pre EXCEPT ![p] = Snapshot]
    /\ UNCHANGED <<authVars, cacheVars, quoteVars, variant, db>>

\* an amount check that lets 0 through
InvalidAmountNegative(amount) == amount < 0

\* the argument checks that open the four entry points
InvalidAmount(amount) == amount <= 0
InvalidQuantity(quantity) == quantity <= 0

\* the starting balance initializeUserWallet deposits
initialBalance == 1000000

\* what the caller of a userUtils entry point answers: the signup route
\* awaits initializeUserWallet, which drops the result of addUserBalance,
\* and then answers 201 with success: true; the other routes pass the
\* result on
Answer(p, r) == IF op[p].name = "signup" THEN Ok ELSE r

\* POST /api/auth/signup once signup() has created the user: the user is
\* new, so no wallet, no log and no other call of that user exist
signup(p) ==
    /\ WalletRows(USER) = <<>> /\ wallet_transactions = <<>>
    /\ \A q \in Procs : ~Running(q)
    /\ Begin(p, [NoOp EXCEPT !.name = "signup", !.amount = initialBalance],
                [NoLoc EXCEPT !.ret = "updateWalletBalance", !.type = "DEPOSIT",
                              !.amount = initialBalance])
    /\ Goto(p, UwbEntry)

addUserBalance(p, amount) ==
    /\ Begin(p, [NoOp EXCEPT !.name = "deposit", !.amount = amount],
                [NoLoc EXCEPT !.ret = "updateWalletBalance", !.type = "DEPOSIT", !.amount = amount])
    /\ IF InvalidAmount(amount)
       THEN Finish(p, Fail("Amount must be greater than 0"))
       ELSE Goto(p, UwbEntry)

removeUserBalance(p, amount) ==
    /\ Begin(p, [NoOp EXCEPT !.name = "withdraw", !.amount = amount],
                [NoLoc EXCEPT !.ret = "removeUserBalance", !.type = "WITHDRAWAL", !.amount = amount])
    /\ IF InvalidAmount(amount)
       THEN Finish(p, Fail("Amount must be greater than 0"))
       ELSE Goto(p, "gwb_select")

\* getUserWallet: the wallet as getWalletBalance returns it; the balance of
\* the returned wallet is kept in loc.newBalance
getUserWallet(p) ==
    /\ Begin(p, [NoOp EXCEPT !.name = "wallet"], [NoLoc EXCEPT !.ret = "getUserWallet"])
    /\ Goto(p, "gwb_select")

\* price resolution of buyStock and sellStock: the caller's price if it is
\* truthy, else currentPrice of getSimpleStockData; fetched = -1 is a fetch
\* that throws, fetched = 0 a quote without currentPrice
PriceMissingIgnored(pricePerShare, fetched) == FALSE
PriceThrows(pricePerShare, fetched) == pricePerShare = 0 /\ fetched = -1
PriceMissing(pricePerShare, fetched) == pricePerShare = 0 /\ fetched = 0
ResolvedPrice(pricePerShare, fetched) == IF pricePerShare # 0 THEN pricePerShare ELSE fetched

\* loc.fetches counts the calls of getSimpleStockData a call has made
buyStock(p, symbol, quantity, pricePerShare, fetched) ==
    /\ InvalidQuantity(quantity) \/ pricePerShare # 0 => fetched = 0
    /\ Begin(p, [NoOp EXCEPT !.name = "buy", !.symbol = symbol, !.quantity = quantity,
                              !.pricePerShare = pricePerShare],
                [NoLoc EXCEPT !.ret = "buyStock", !.type = "STOCK_PURCHASE", !.fetched = fetched,
                              !.stockPrice = ResolvedPrice(pricePerShare, fetched),
                              !.fetches = IF InvalidQuantity(quantity) \/ pricePerShare # 0
                                          THEN 0 ELSE 1,
                              !.amount = quantity * ResolvedPrice(pricePerShare, fetched)])
    /\ IF InvalidQuantity(quantity)
       THEN Finish(p, Fail("Quantity must be greater than 0"))
       ELSE IF PriceThrows(pricePerShare, fetched)
       THEN Finish(p, Fail("Failed to buy stock"))
       ELSE IF PriceMissing(pricePerShare, fetched)
       THEN Finish(p, Fail("Could not fetch current price"))
       ELSE Goto(p, "gwb_select")

sellStock(p, symbol, quantity, pricePerShare) ==
    /\ Begin(p, [NoOp EXCEPT !.name = "sell", !.symbol = symbol, !.quantity = quantity,
                              !.pricePerShare = pricePerShare],
                [NoLoc EXCEPT !.type = "STOCK_SALE", !.stockPrice = pricePerShare])
    /\ IF InvalidQuantity(quantity)
       THEN Finish(p, Fail("Quantity must be greater than 0"))
       ELSE Goto(p, "sell_portfolio")

\* ---------------------------------------------------- getWalletBalance
\* what the caller of getWalletBalance does with the wallet it awaited
AfterWallet(p, w) ==
    LET l == loc[p] IN
    CASE l.ret = "removeUserBalance" ->
           IF InsufficientFunds(w, l.amount)
           THEN Finish(p, Fail("Insufficient balance")) /\ UNCHANGED loc
           ELSE /\ Goto(p, UwbEntry)
                /\ loc' = [loc EXCEPT ![p].ret = "updateWalletBalance"]
      [] l.ret = "updateWalletBalance" ->
           IF Overdrawn(NewBalance(w, l.amount, l.type), l.type)
           THEN Finish(p, Fail("Insufficient balance")) /\ UNCHANGED loc
           ELSE /\ Goto(p, "uwb_txn")
                /\ loc' = [loc EXCEPT ![p].newBalance = NewBalance(w, l.amount, l.type)]
      [] l.ret = "buyStock" ->
           IF InsufficientFunds(w, l.amount)
           THEN Finish(p, Fail("Insufficient balance")) /\ UNCHANGED loc
           ELSE /\ Goto(p, "gwb_select")
                /\ loc' = [loc EXCEPT ![p].ret = "db.buyStock"]
      [] l.ret = "db.buyStock" ->
           IF InsufficientFunds(w, l.amount)
           THEN Finish(p, Fail("Insufficient wallet balance")) /\ UNCHANGED loc
           ELSE /\ Goto(p, IF variant = "tx" THEN "buy_holding" ELSE "uwb_serial")
                /\ UNCHANGED loc
      [] l.ret = "getUserWallet" ->
           /\ Finish(p, Ok)
           /\ loc' = [loc EXCEPT ![p].newBalance = w]

\* SELECT * FROM user_wallets WHERE user_id = ?
getWalletBalance(p) ==
    /\ pc[p] = "gwb_select"
    /\ IF WalletRows(USER) = <<>>
       THEN Goto(p, "gwb_insert") /\ UNCHANGED loc
       ELSE AfterWallet(p, WalletRows(USER)[1].balance)
    /\ UNCHANGED <<authVars, cacheVars, quoteVars, variant, db, op, pre, ncalls>>

\* INSERT INTO user_wallets ... VALUES (?, 0.00, ...): user_id is the primary
\* key, so the insert fails when another call created the row meanwhile
createWallet(p) ==
    /\ pc[p] = "gwb_insert"
    /\ IF WalletRows(USER) # <<>>
       THEN /\ Finish(p, Fail("UNIQUE constraint failed"))
            /\ UNCHANGED <<user_wallets, loc>>
       ELSE /\ user_wallets' = Append(user_wallets, WalletRow(USER, 0))
            /\ AfterWallet(p, 0)
    /\ UNCHANGED <<authVars, cacheVars, quoteVars, variant, portfolio_holdings, stock_transactions, wallet_transactions,
                   op, pre, ncalls>>

\* --------------------------------------------------- updateWalletBalance
\* a statement of the group fails (an I/O fault, SQLITE_BUSY): the rejection
\* reaches the catch block of the userUtils entry point, which returns
\* success: false
Rejected(p, msg) == Finish(p, Answer(p, Fail(msg)))

\* runTransaction([UPDATE user_wallets SET balance = ?, INSERT INTO
\* wallet_transactions]): both statements or, after a failure, neither
updateWalletBalance_tx(p) ==
    /\ pc[p] = "uwb_txn"
    /\ \/ /\ user_wallets' = SetBalance(user_wallets, USER, loc[p].newBalance)
          /\ wallet_transactions' = Insert(wallet_transactions,
                 WalletTxRow(USER, loc[p].type, loc[p].amount, loc[p].newBalance))
          /\ Finish(p, Answer(p, Ok))
       \/ /\ Rejected(p, "wallet statement failed")
          /\ UNCHANGED <<user_wallets, wallet_transactions>>
    /\ UNCHANGED <<authVars, cacheVars, quoteVars, variant, portfolio_holdings, stock_transactions, op, loc, pre, ncalls>>

\* callback-nested updateWalletBalance: BEGIN; SELECT balance; INSERT OR
\* REPLACE user_wallets; INSERT wallet_transactions; COMMIT on one connection
updateWalletBalance_cb(p) ==
    /\ pc[p] = "uwb_serial"
    /\ LET nb == NewBalance(Balance, loc[p].amount, loc[p].type) IN
       IF Overdrawn(nb, loc[p].type)
       THEN /\ Finish(p, Fail("Insufficient balance"))
            /\ UNCHANGED <<user_wallets, wallet_transactions>>
       ELSE \/ /\ user_wallets' = ReplaceWallet(user_wallets, USER, nb)
               /\ wallet_transactions' = Insert(wallet_transactions,
                      WalletTxRow(USER, loc[p].type, loc[p].amount, nb))
               /\ IF op[p].name = "buy" THEN Goto(p, "buy_cb")
                  ELSE Finish(p, Answer(p, Ok))
            \/ /\ Rejected(p, "wallet statement failed")
               /\ UNCHANGED <<user_wallets, wallet_transactions>>
    /\ UNCHANGED <<authVars, cacheVars, quoteVars, variant, portfolio_holdings, stock_transactions, op, loc, pre, ncalls>>

\* other ways to do the holding arithmetic, which the properties below
\* distinguish from the program's: the lot's price taken as the new average,
HoldingAfterBuyLastPrice(h, quantity, price) ==
    [h EXCEPT !.quantity = h.quantity + quantity,
              !.average_price = RatOfInt(price),
              !.invested_amount = RatAdd(h.invested_amount, RatOfInt(quantity * price))]

\* the average price left as it was by a buy,
HoldingAfterBuyStaleAverage(h, quantity, price) ==
    [h EXCEPT !.quantity = h.quantity + quantity,
              !.invested_amount = RatAdd(h.invested_amount, RatOfInt(quantity * price))]

\* the price of one share taken as the invested amount of the lot,
NewHoldingUnitCost(u, symbol, quantity, price) ==
    HoldingRow(u, symbol, quantity, RatOfInt(price), RatOfInt(price))

\* the sold fraction of the invested amount kept instead of the remaining one,
HoldingAfterSellSoldFraction(h, quantity) ==
    [quantity |-> h.quantity - quantity,
     invested_amount |-> RatMul(Rat(quantity, h.quantity), h.invested_amount)]

\* and a holding that is never taken to be empty
SoldOutNever(h, quantity) == h.quantity - quantity < 0

\* ------------------------------------------------ holdings: pure functions
\* buyStock, existing holding: quantity and invested amount grow by the lot,
\* the average price is their quotient
HoldingAfterBuy(h, quantity, price) ==
    LET newQuantity == h.quantity + quantity
        newInvestedAmount == RatAdd(h.invested_amount, RatOfInt(quantity * price))
        newAveragePrice == RatDiv(newInvestedAmount, RatOfInt(newQuantity))
    IN  [h EXCEPT !.quantity = newQuantity, !.average_price = newAveragePrice,
                  !.invested_amount = newInvestedAmount]

\* buyStock, no holding yet: the row that is inserted
NewHolding(u, symbol, quantity, price) ==
    HoldingRow(u, symbol, quantity, RatOfInt(price), RatOfInt(quantity * price))

\* sellStock, part of the holding sold: (newQuantity / holding.quantity) *
\* holding.invested_amount; average_price is not among the columns set
HoldingAfterSell(h, quantity) ==
    LET newQuantity == h.quantity - quantity
        newInvestedAmount == RatMul(Rat(newQuantity, h.quantity), h.invested_amount)
    IN  [quantity |-> newQuantity, invested_amount |-> newInvestedAmount]

\* the sale empties the holding: the row is deleted instead of updated
SoldOut(h, quantity) == h.quantity - quantity = 0

\* a share check that never refuses a holding that exists
InsufficientSharesLax(rows, quantity) ==
    IF rows = <<>> THEN TRUE ELSE rows[1].quantity < 0

\* sellStock's test of the holding it read
InsufficientShares(rows, quantity) ==
    IF rows = <<>> THEN TRUE ELSE rows[1].quantity < quantity

\* UPDATE portfolio_holdings SET quantity = ?, average_price = ?,
\* invested_amount = ? WHERE user_id = ? AND symbol = ?  (no row: no change)
UpdateHoldingBuy(tbl, u, s, n) ==
    [i \in 1..Len(tbl) |->
        IF tbl[i].user_id = u /\ tbl[i].symbol = s
        THEN [tbl[i] EXCEPT !.quantity = n.quantity, !.average_price = n.average_price,
                            !.invested_amount = n.invested_amount]
        ELSE tbl[i]]

\* UPDATE portfolio_holdings SET quantity = ?, invested_amount = ? WHERE ...
UpdateHoldingSell(tbl, u, s, n) ==
    [i \in 1..Len(tbl) |->
        IF tbl[i].user_id = u /\ tbl[i].symbol = s
        THEN [tbl[i] EXCEPT !.quantity = n.quantity, !.invested_amount = n.invested_amount]
        ELSE tbl[i]]

\* DELETE FROM portfolio_holdings WHERE user_id = ? AND symbol = ?
DeleteHolding(tbl, u, s) == SelectSeq(tbl, LAMBDA r : ~(r.user_id = u /\ r.symbol = s))

\* UNIQUE(user_id, symbol): an INSERT of a second row for the pair fails
UniqueViolation(tbl, u, s) == HoldingRows(tbl, u, s) # <<>>

\* the holdings table after the upsert of a buy that read `existing`
\* (a result set of at most one row) before writing
HoldingsAfterBuy(tbl, existing, u, s, quantity, price) ==
    IF existing # <<>>
    THEN UpdateHoldingBuy(tbl, u, s, HoldingAfterBuy(existing[1], quantity, price))
    ELSE Append(tbl, NewHolding(u, s, quantity, price))

\* the holdings table after the delete-or-update of a sale that read `h`
HoldingsAfterSell(tbl, h, u, s, quantity) ==
    IF SoldOut(h, quantity)
    THEN DeleteHolding(tbl, u, s)
    ELSE UpdateHoldingSell(tbl, u, s, HoldingAfterSell(h, quantity))

\* UPDATE user_wallets SET balance = balance - ? WHERE user_id = ?
DebitWallet(tbl, u, totalAmount) ==
    [i \in 1..Len(tbl) |->
        IF tbl[i].user_id = u THEN [tbl[i] EXCEPT !.balance = @ - totalAmount] ELSE tbl[i]]

\* ------------------------------------------------------------------ Init
\* The store as created (no rows at all), or the store of a user whose wallet
\* was funded by one deposit of InitialDeposit (the state addUserBalance
\* leaves behind), or the store of that user after buying one share of TCS
\* at price 1 (the state buyStock leaves behind).
FreshLedger ==
    /\ user_wallets = <<>>
    /\ wallet_transactions = <<>>
    /\ portfolio_holdings = <<>>
    /\ stock_transactions = <<>>

FundedLedger ==
    /\ user_wallets = <<WalletRow(USER, InitialDeposit)>>
    /\ wallet_transactions = <<WalletTxRow(USER, "DEPOSIT", InitialDeposit, InitialDeposit)>>
    /\ portfolio_holdings = <<>>
    /\ stock_transactions = <<>>

InvestedLedger ==
    /\ user_wallets = <<WalletRow(USER, InitialDeposit - 1)>>
    /\ wallet_transactions =
          <<WalletTxRow(USER, "DEPOSIT", InitialDeposit, InitialDeposit),
            WalletTxRow(USER, "STOCK_PURCHASE", 1, InitialDeposit - 1)>>
    /\ portfolio_holdings = <<NewHolding(USER, "TCS", 1, 1)>>
    /\ stock_transactions = <<StockTxRow(USER, "TCS", "BUY", 1, 1)>>

\* ---------------------------------------------------------- quote cache
\* getSimpleStockData asks for quotes no older than 5 minutes
QuoteMaxAgeMinutes == 5

\* the chart endpoints in the order of the `endpoints` array: query1,
\* query2, the quote page
Endpoints == <<"query1", "query2", "quote page">>

\* chart.result[0].meta of a response: two payloads per symbol that differ
\* in every field
Payload(s, v) ==
    [kind |-> "chart", symbol |-> <<s, "NS">>, regularMarketPrice |-> 10 * v + 1, previousClose |-> 10 * v + 2,
     regularMarketDayHigh |-> 10 * v + 3, regularMarketDayLow |-> 10 * v + 4,
     regularMarketVolume |-> 10 * v + 5]
Payloads(s) == {Payload(s, v) : v \in 1..MaxPayloads}

\* what a GET of an endpoint can give: an exception, a response without
\* chart.result[0], or a response with one
Throws == [kind |-> "throws"]
NoResult == [kind |-> "no result"]
Responses(s) == {Throws, NoResult} \cup Payloads(s)

\* maxAgeMinutes arguments of getCachedQuote
MaxAges == {2, QuoteMaxAgeMinutes}

NoQuote == [cached |-> FALSE, source |-> "", symbol |-> <<>>, currentPrice |-> 0,
            previousClose |-> 0, dayHigh |-> 0, dayLow |-> 0, volume |-> 0]

NoFetch == [pc |-> "idle", symbol |-> "", useCache |-> FALSE, k |-> 0,
            contacted |-> <<>>, responses |-> <<>>, result |-> NoQuote, returned |-> FALSE,
            error |-> "", readFailed |-> FALSE, written |-> FALSE,
            started |-> 0, at |-> 0, pre |-> <<>>, n |-> 0,
            prev |-> [symbol |-> "", result |-> NoQuote, written |-> FALSE, at |-> 0,
                      endpoints |-> 0]]

NoLookup == [symbol |-> "", maxAgeMinutes |-> 0, at |-> 0, rejected |-> FALSE,
             row |-> <<>>]

NoStoreCall == [name |-> "none", n |-> 0, symbol |-> "", period |-> "", interval |-> "",
                historicalData |-> <<>>, query |-> <<>>, results |-> <<>>, at |-> 0,
                rejected |-> FALSE, answer |-> <<>>,
                pre |-> [quotes |-> <<>>, historical_data |-> {}, cache_metadata |-> {},
                         search_cache |-> {}]]

NoCompare == [pc |-> "idle", symbols |-> <<>>, useCache |-> FALSE, i |-> 0, base |-> 0,
              stockData |-> <<>>]

NoSearch == [pc |-> "idle", n |-> 0, query |-> <<>>, limit |-> 0, online |-> FALSE, k |-> 0,
             accessed |-> <<>>, hit |-> FALSE, onlineResults |-> <<>>, written |-> FALSE,
             returned |-> FALSE, rejected |-> FALSE,
             answer |-> [resultsCount |-> 0, source |-> <<>>, results |-> <<>>], at |-> 0]

NoHist == [pc |-> "idle", n |-> 0, symbol |-> "", period |-> "", interval |-> "",
           useCache |-> FALSE, contacted |-> <<>>, rows |-> <<>>, bars |-> <<>>,
           cached |-> FALSE, returned |-> FALSE, failed |-> FALSE, rejected |-> FALSE,
           written |-> FALSE, at |-> 0,
           prev |-> [symbol |-> "", period |-> "", interval |-> "", bars |-> <<>>,
                     useCache |-> FALSE,
                     written |-> FALSE, returned |-> FALSE, contacted |-> <<>>,
                     finished |-> -1]]

NoSignin == [email |-> [word |-> "", upper |-> FALSE], correct |-> FALSE, at |-> 0,
             failedAttempts |-> 0, tokens |-> FALSE, error |-> "", n |-> 0, pre |-> <<>>]

\* getHistoricalData and the auth database as the other specifications
\* leave them
AuthIdle ==
    /\ hist = NoHist
    /\ login_attempts = <<>>
    /\ auth = NoSignin

\* the other tables as the ledger and quote specifications leave them
CacheIdle ==
    /\ historical_data = {}
    /\ cache_metadata = {}
    /\ search_cache = {}
    /\ stocks = {}
    /\ storeCall = NoStoreCall
    /\ search = NoSearch
    /\ compare = NoCompare
    /\ AuthIdle

\* the quote store as the ledger specifications leave it
QuoteStoreIdle ==
    /\ now = 0
    /\ quotes = <<>>
    /\ fetch = NoFetch
    /\ lookup = NoLookup

Init ==
    /\ variant \in {"tx", "cb"}
    /\ FreshLedger \/ FundedLedger \/ InvestedLedger
    /\ QuoteStoreIdle
    /\ CacheIdle
    /\ pc = [p \in Procs |-> "idle"]
    /\ op = [p \in Procs |-> NoOp]
    /\ loc = [p \in Procs |-> NoLoc]
    /\ res = [p \in Procs |-> NoRes]
    /\ pre = [p \in Procs |-> Snapshot]
    /\ ncalls = 0

\* -------------------------------------- buyStock, runTransaction variant
\* SELECT * FROM portfolio_holdings WHERE user_id = ? AND symbol = ?; the
\* operations list is built from the row that was read
buyStock_getHolding(p) ==
    /\ pc[p] = "buy_holding"
    /\ loc' = [loc EXCEPT ![p].holding = HoldingRows(portfolio_holdings, USER, op[p].symbol)]
    /\ Goto(p, "buy_txn")
    /\ UNCHANGED <<authVars, cacheVars, quoteVars, variant, db, op, pre, ncalls>>

\* the statements after the wallet debit whose failure rolls a buy back
BuyFailures == {"stock statement failed", "holding statement failed"}

\* runTransaction([debit wallet, log STOCK_PURCHASE with the balance read
\* back, log BUY, update or insert the holding]); an error in any statement
\* rolls the whole group back.  The INSERT of a holding fails on its own
\* when another call inserted the row after this call looked for it.
buyStock_tx(p) ==
    /\ pc[p] = "buy_txn"
    /\ LET s == op[p].symbol
           q == op[p].quantity
           debited == DebitWallet(user_wallets, USER, loc[p].amount)
           clash == loc[p].holding = <<>> /\ UniqueViolation(portfolio_holdings, USER, s)
       IN
       \/ IF clash
          THEN /\ Finish(p, Fail("holding statement failed"))
               /\ UNCHANGED db
          ELSE /\ user_wallets' = debited
               /\ wallet_transactions' = Insert(wallet_transactions,
                      WalletTxRow(USER, "STOCK_PURCHASE", loc[p].amount,
                                  SelectSeq(debited, LAMBDA r : r.user_id = USER)[1].balance))
               /\ stock_transactions' = Insert(stock_transactions,
                      StockTxRow(USER, s, "BUY", q, loc[p].stockPrice))
               /\ portfolio_holdings' = HoldingsAfterBuy(portfolio_holdings, loc[p].holding,
                                                         USER, s, q, loc[p].stockPrice)
               /\ Finish(p, Ok)
       \/ /\ \E msg \in BuyFailures \cup {"wallet statement failed"} : Rejected(p, msg)
          /\ UNCHANGED db
    /\ UNCHANGED <<authVars, cacheVars, quoteVars, variant, op, loc, pre, ncalls>>

\* -------------------------------------- buyStock, callback-nested variant
\* The wallet was debited and the debit committed by updateWalletBalance on
\* its own connection.  On the connection of buyStock: INSERT the BUY row,
\* SELECT the holding, UPDATE or INSERT it, COMMIT.  A failing statement
\* rolls back this connection only.
buyStock_cb(p) ==
    /\ pc[p] = "buy_cb"
    /\ LET s == op[p].symbol
           q == op[p].quantity
       IN
       \/ /\ stock_transactions' = Insert(stock_transactions,
                 StockTxRow(USER, s, "BUY", q, loc[p].stockPrice))
          /\ portfolio_holdings' = HoldingsAfterBuy(portfolio_holdings,
                 HoldingRows(portfolio_holdings, USER, s), USER, s, q, loc[p].stockPrice)
          /\ Finish(p, Ok)
       \/ /\ \E msg \in BuyFailures : Rejected(p, msg)
          /\ UNCHANGED <<stock_transactions, portfolio_holdings>>
    /\ UNCHANGED <<authVars, cacheVars, quoteVars, variant, user_wallets, wallet_transactions, op, loc, pre, ncalls>>

\* ------------------------------------------------- sellStock of userUtils
\* getPortfolio, the two checks on the holding found there, then the price
\* resolution (it reads nothing of the ledger)
sellStock_getPortfolio(p, fetched) ==
    /\ pc[p] = "sell_portfolio"
    /\ loc[p].stockPrice # 0 => fetched = 0
    /\ LET rows == HoldingRows(portfolio_holdings, USER, op[p].symbol)
           price == ResolvedPrice(loc[p].stockPrice, fetched)
       IN
       IF rows = <<>>
       THEN fetched = 0 /\ Finish(p, Fail("You don't own any shares")) /\ UNCHANGED loc
       ELSE IF InsufficientShares(rows, op[p].quantity)
       THEN fetched = 0 /\ Finish(p, Fail("Insufficient shares")) /\ UNCHANGED loc
       ELSE IF PriceThrows(loc[p].stockPrice, fetched)
       THEN /\ Finish(p, Fail("Failed to sell stock"))
            /\ loc' = [loc EXCEPT ![p].fetches = 1, ![p].fetched = fetched]
       ELSE IF PriceMissing(loc[p].stockPrice, fetched)
       THEN /\ Finish(p, Fail("Could not fetch current price"))
            /\ loc' = [loc EXCEPT ![p].fetches = 1, ![p].fetched = fetched]
       ELSE /\ Goto(p, IF variant = "tx" THEN "sell_holding" ELSE "sell_cb")
            /\ loc' = [loc EXCEPT ![p].stockPrice = price,
                                  ![p].amount = op[p].quantity * price,
                                  ![p].fetches = IF loc[p].stockPrice # 0 THEN 0 ELSE 1,
                                  ![p].fetched = fetched]
    /\ UNCHANGED <<authVars, cacheVars, quoteVars, variant, db, op, pre, ncalls>>

\* ------------------------------------- sellStock, runTransaction variant
sellStock_getHolding(p) ==
    /\ pc[p] = "sell_holding"
    /\ LET rows == HoldingRows(portfolio_holdings, USER, op[p].symbol) IN
       IF InsufficientShares(rows, op[p].quantity)
       THEN Finish(p, Fail("Insufficient shares to sell")) /\ UNCHANGED loc
       ELSE Goto(p, "sell_txn") /\ loc' = [loc EXCEPT ![p].holding = rows]
    /\ UNCHANGED <<authVars, cacheVars, quoteVars, variant, db, op, pre, ncalls>>

\* runTransaction([log SELL, delete or update the holding]); the operations
\* were built from the holding read in the step before.  The wallet is not
\* among the tables the group touches.
sellStock_tx(p) ==
    /\ pc[p] = "sell_txn"
    /\ \/ /\ stock_transactions' = Insert(stock_transactions,
                 StockTxRow(USER, op[p].symbol, "SELL", op[p].quantity, loc[p].stockPrice))
          /\ portfolio_holdings' = HoldingsAfterSell(portfolio_holdings, loc[p].holding[1],
                                                     USER, op[p].symbol, op[p].quantity)
          /\ Finish(p, Ok)
       \/ /\ \E msg \in BuyFailures : Rejected(p, msg)
          /\ UNCHANGED <<stock_transactions, portfolio_holdings>>
    /\ UNCHANGED <<authVars, cacheVars, quoteVars, variant, user_wallets, wallet_transactions, op, loc, pre, ncalls>>

\* ------------------------------------- sellStock, callback-nested variant
\* On the connection of sellStock: BEGIN, SELECT the holding, INSERT the SELL
\* row, DELETE or UPDATE the holding; then updateWalletBalance(STOCK_SALE)
\* on a second connection, which commits by itself; then COMMIT.  The second
\* connection writes while the first has uncommitted writes: SQLite may
\* refuse that write (SQLITE_BUSY), so the credit is an outcome, not a
\* certainty.  Outcomes: too few shares; a statement fails before the credit
\* is committed (nothing changes); everything commits; the credit commits
\* and the final COMMIT fails (the credit stays, the sale is rolled back).
sellStock_cb(p) ==
    /\ pc[p] = "sell_cb"
    /\ LET rows == HoldingRows(portfolio_holdings, USER, op[p].symbol)
           nb == NewBalance(Balance, loc[p].amount, "STOCK_SALE")
           credited == Insert(wallet_transactions,
                              WalletTxRow(USER, "STOCK_SALE", loc[p].amount, nb))
       IN
       IF InsufficientShares(rows, op[p].quantity)
       THEN /\ Finish(p, Fail("Insufficient shares to sell"))
            /\ UNCHANGED db
       ELSE \/ /\ \E msg \in BuyFailures \cup {"wallet statement failed"} : Rejected(p, msg)
               /\ UNCHANGED db
            \/ /\ stock_transactions' = Insert(stock_transactions,
                      StockTxRow(USER, op[p].symbol, "SELL", op[p].quantity, loc[p].stockPrice))
               /\ portfolio_holdings' = HoldingsAfterSell(portfolio_holdings, rows[1],
                                                          USER, op[p].symbol, op[p].quantity)
               /\ user_wallets' = ReplaceWallet(user_wallets, USER, nb)
               /\ wallet_transactions' = credited
               /\ Finish(p, Ok)
            \/ /\ Rejected(p, "commit failed")
               /\ user_wallets' = ReplaceWallet(user_wallets, USER, nb)
               /\ wallet_transactions' = credited
               /\ UNCHANGED <<stock_transactions, portfolio_holdings>>
    /\ UNCHANGED <<authVars, cacheVars, quoteVars, variant, op, loc, pre, ncalls>>

\* ----------------------------------------- getUserPortfolio (price refresh)
\* what getSimpleStockData gives for a holding: a currentPrice, or -1 when
\* it throws
QuoteOutcomes == (Prices \ {0}) \cup {-1}

getUserPortfolio(p) ==
    /\ Begin(p, [NoOp EXCEPT !.name = "refresh"], NoLoc)
    /\ Goto(p, "pf_read")

\* the price that goes into stockPrices for a holding: the fetched one, or
\* holding.current_price || holding.average_price when the fetch threw
RefreshPrice(h, outcome) ==
    IF outcome # -1 THEN RatOfInt(outcome)
    ELSE IF h.current_price[1] # 0 THEN h.current_price
    ELSE h.average_price

\* getPortfolio, then one price per holding read
getUserPortfolio_read(p, outcomes) ==
    /\ pc[p] = "pf_read"
    /\ LET rows == HoldingsOf(USER) IN
       IF rows = <<>>
       THEN Finish(p, Ok) /\ UNCHANGED loc
       ELSE /\ loc' = [loc EXCEPT ![p].stockPrices =
                        [k \in 1..Len(rows) |->
                            [symbol |-> rows[k].symbol,
                             currentPrice |-> RefreshPrice(rows[k], outcomes[rows[k].symbol])]]]
            /\ Goto(p, IF variant = "tx" THEN "pf_update_tx" ELSE "pf_update_cb")
    /\ UNCHANGED <<authVars, cacheVars, quoteVars, variant, db, op, pre, ncalls>>

\* the holdings after the UPDATE statements numbered in `applied` have run:
\* statement k sets current_price of the user's row of stockPrices[k].symbol
UpdateCurrentPrices(tbl, u, stockPrices, applied) ==
    [i \in 1..Len(tbl) |->
        IF tbl[i].user_id = u /\ \E k \in applied : stockPrices[k].symbol = tbl[i].symbol
        THEN LET k == CHOOSE k \in applied : stockPrices[k].symbol = tbl[i].symbol
             IN  [tbl[i] EXCEPT !.current_price = stockPrices[k].currentPrice]
        ELSE tbl[i]]

\* runTransaction variant: the UPDATEs are one transaction
updatePortfolioCurrentPrices_tx(p) ==
    /\ pc[p] = "pf_update_tx"
    /\ \/ /\ portfolio_holdings' = UpdateCurrentPrices(portfolio_holdings, USER,
                    loc[p].stockPrices, 1..Len(loc[p].stockPrices))
          /\ Finish(p, Ok)
       \/ /\ Rejected(p, "Failed to get portfolio")
          /\ UNCHANGED portfolio_holdings
    /\ UNCHANGED <<authVars, cacheVars, quoteVars, variant, user_wallets, stock_transactions, wallet_transactions,
                   op, loc, pre, ncalls>>

\* callback-nested variant: the UPDATEs run one by one outside a
\* transaction, each on its own; the promise is settled by the callback
\* that completes last, with that statement's error only
updatePortfolioCurrentPrices_cb(p) ==
    /\ pc[p] = "pf_update_cb"
    /\ \E failed \in SUBSET (1..Len(loc[p].stockPrices)) :
          /\ portfolio_holdings' = UpdateCurrentPrices(portfolio_holdings, USER,
                    loc[p].stockPrices, (1..Len(loc[p].stockPrices)) \ failed)
          /\ Finish(p, IF Len(loc[p].stockPrices) \in failed
                       THEN Fail("Failed to get portfolio") ELSE Ok)
    /\ UNCHANGED <<authVars, cacheVars, quoteVars, variant, user_wallets, stock_transactions, wallet_transactions,
                   op, loc, pre, ncalls>>

\* other ways to write the quote cache and the endpoint loop, which the
\* properties below distinguish from the program's: a freshness test that
\* admits a row exactly maxAgeMinutes old,
FreshInclusive(row, symbol, maxAgeMinutes, t) ==
    row.symbol = symbol /\ row.last_updated >= t - maxAgeMinutes

\* a cache hit that reports the previous close as the current price,
CachedDataMixed(cached) ==
    [cached |-> TRUE, source |-> "Database Cache", symbol |-> <<cached.symbol>>,
     currentPrice |-> cached.previous_close, previousClose |-> cached.current_price,
     dayHigh |-> cached.day_high, dayLow |-> cached.day_low, volume |-> cached.volume]

\* a loop that skips every other endpoint,
NextEndpointSkipping(k) == k + 2

\* and a loop that ends without raising an error
AfterLastFailureSilent(f) == [f EXCEPT !.pc = "done"]

\* ------------------------------------------- StockDatabase: quote cache
\* last_updated > datetime('now', '-N minutes')
Fresh(row, symbol, maxAgeMinutes, t) ==
    row.symbol = symbol /\ row.last_updated > t - maxAgeMinutes

FreshRows(tbl, symbol, maxAgeMinutes, t) ==
    SelectSeq(tbl, LAMBDA r : Fresh(r, symbol, maxAgeMinutes, t))

\* ORDER BY last_updated DESC LIMIT 1: a row that no row is newer than;
\* among rows of one timestamp SQLite may give any
Latest(rows) ==
    {rows[i] : i \in {j \in 1..Len(rows) :
                        \A k \in 1..Len(rows) : rows[k].last_updated <= rows[j].last_updated}}

\* the row cacheQuote inserts: the symbol asked for, five fields of the
\* quote, CURRENT_TIMESTAMP
QuoteRow(symbol, quoteData, t) ==
    [symbol |-> symbol, current_price |-> quoteData.currentPrice,
     previous_close |-> quoteData.previousClose, day_high |-> quoteData.dayHigh,
     day_low |-> quoteData.dayLow, volume |-> quoteData.volume, last_updated |-> t]

\* the object getSimpleStockData builds from a chart response
StockData(meta) ==
    [cached |-> FALSE, source |-> "Yahoo Finance Chart API", symbol |-> meta.symbol,
     currentPrice |-> meta.regularMarketPrice, previousClose |-> meta.previousClose,
     dayHigh |-> meta.regularMarketDayHigh, dayLow |-> meta.regularMarketDayLow,
     volume |-> meta.regularMarketVolume]

\* the object getSimpleStockData builds from a cached row
CachedData(cached) ==
    [cached |-> TRUE, source |-> "Database Cache", symbol |-> <<cached.symbol>>,
     currentPrice |-> cached.current_price, previousClose |-> cached.previous_close,
     dayHigh |-> cached.day_high, dayLow |-> cached.day_low, volume |-> cached.volume]

\* response.data?.chart?.result?.[0]
Parseable(response) == response.kind = "chart"

\* the for loop over `endpoints`
NextEndpoint(k) == k + 1
LastEndpoint(k) == k = Len(Endpoints)

\* the loop ran out of endpoints: throw new Error('All endpoints failed ...')
AfterLastFailure(f) == [f EXCEPT !.pc = "done", !.error = "All endpoints failed"]

\* a minute passes
Tick ==
    /\ now < MaxTime
    /\ now' = now + 1
    /\ UNCHANGED <<authVars, cacheVars, ledgerVars, quotes, fetch, lookup>>

QuoteCallerFree == fetch.pc \in {"idle", "done"} /\ fetch.n < MaxQuoteCalls

\* StockDatabase.getCachedQuote called on its own
getCachedQuote(symbol, maxAgeMinutes) ==
    /\ QuoteCallerFree
    /\ fetch' = [fetch EXCEPT !.n = @ + 1]
    /\ LET fresh == FreshRows(quotes, symbol, maxAgeMinutes, now)
           answer == [symbol |-> symbol, maxAgeMinutes |-> maxAgeMinutes, at |-> now,
                      rejected |-> FALSE, row |-> <<>>]
       IN  \/ lookup' = [answer EXCEPT !.rejected = TRUE]
           \/ IF fresh = <<>>
              THEN lookup' = answer
              ELSE \E r \in Latest(fresh) : lookup' = [answer EXCEPT !.row = <<r>>]
    /\ UNCHANGED <<authVars, cacheVars, ledgerVars, now, quotes>>

\* getSimpleStockData up to its first upstream request: the cache read
getSimpleStockData(symbol, useCache) ==
    /\ QuoteCallerFree
    /\ LET fresh == FreshRows(quotes, symbol, QuoteMaxAgeMinutes, now)
           call == [NoFetch EXCEPT
                       !.symbol = symbol, !.useCache = useCache, !.started = now,
                       !.pre = quotes, !.n = fetch.n + 1,
                       !.prev = IF fetch.returned /\ ~fetch.result.cached /\ fetch.written
                                THEN [symbol |-> fetch.symbol, result |-> fetch.result,
                                      written |-> TRUE, at |-> fetch.at,
                                      endpoints |-> Len(fetch.contacted)]
                                ELSE fetch.prev]
       IN  IF useCache
           THEN \/ fetch' = [call EXCEPT !.pc = "done", !.readFailed = TRUE,
                                         !.error = "cache read failed"]
                \/ IF fresh = <<>>
                   THEN fetch' = [call EXCEPT !.pc = "endpoint", !.k = 1]
                   ELSE \E r \in Latest(fresh) :
                           fetch' = [call EXCEPT !.pc = "done", !.returned = TRUE,
                                                !.result = CachedData(r)]
           ELSE fetch' = [call EXCEPT !.pc = "endpoint", !.k = 1]
    /\ lookup' = NoLookup
    /\ UNCHANGED <<authVars, cacheVars, ledgerVars, now, quotes>>

\* one turn of the endpoint loop: axiosInstance.get(url) and what follows
\* up to the next await
contactEndpoint(response) ==
    /\ fetch.pc = "endpoint"
    /\ LET asked == [fetch EXCEPT !.contacted = Append(@, Endpoints[fetch.k]),
                                  !.responses = Append(@, response)]
       IN  fetch' =
             IF Parseable(response)
             THEN [asked EXCEPT !.result = StockData(response),
                                !.pc = IF fetch.useCache THEN "cache_write" ELSE "done",
                                !.returned = ~fetch.useCache]
             ELSE IF LastEndpoint(fetch.k)
             THEN AfterLastFailure(asked)
             ELSE [asked EXCEPT !.k = NextEndpoint(fetch.k)]
    /\ UNCHANGED <<authVars, cacheVars, ledgerVars, now, quotes, lookup>>

\* db.cacheQuote(symbol, stockData) inside try/catch: the row is inserted,
\* or the insert fails and the error is logged; stockData is returned
cacheQuote ==
    /\ fetch.pc = "cache_write"
    /\ \/ /\ quotes' = Append(quotes, QuoteRow(fetch.symbol, fetch.result, now))
          /\ fetch' = [fetch EXCEPT !.pc = "done", !.returned = TRUE, !.written = TRUE,
                                    !.at = now]
       \/ /\ fetch' = [fetch EXCEPT !.pc = "done", !.returned = TRUE]
          /\ UNCHANGED quotes
    /\ UNCHANGED <<authVars, cacheVars, ledgerVars, now, lookup>>

\* --------------------------------------------------------- compareStocks
\* a loop that keeps the entries of the symbols it could fetch only
PushIfFetched(stockData, entry) ==
    IF entry.error # <<>> THEN stockData ELSE Append(stockData, entry)

SymbolLists == {<<>>} \cup {<<a>> : a \in Symbols} \cup {<<a, b>> : a, b \in Symbols}

\* the entry of one symbol: the quote's fields, or the symbol and the
\* message of the error getSimpleStockData threw
CompareEntry(symbol, f) ==
    IF f.returned
    THEN [symbol |-> f.result.symbol, currentPrice |-> f.result.currentPrice,
          previousClose |-> f.result.previousClose,
          change |-> f.result.currentPrice - f.result.previousClose,
          changePercent |-> RatDiv(RatOfInt(100 * (f.result.currentPrice - f.result.previousClose)),
                                   RatOfInt(f.result.previousClose)),
          volume |-> f.result.volume, cached |-> f.result.cached, error |-> <<>>]
    ELSE [symbol |-> <<symbol>>, currentPrice |-> 0, previousClose |-> 0, change |-> 0,
          changePercent |-> <<0, 1>>, volume |-> 0, cached |-> FALSE,
          error |-> <<"Failed to fetch data: ", f.error>>]

PushEntry(stockData, entry) == Append(stockData, entry)

compareStocks(symbols, useCache) ==
    /\ compare.pc = "idle" /\ fetch.pc \in {"idle", "done"}
    /\ compare' = [NoCompare EXCEPT !.pc = IF symbols = <<>> THEN "done" ELSE "loop",
                                    !.symbols = symbols, !.useCache = useCache,
                                    !.i = 1, !.base = fetch.n]
    /\ UNCHANGED <<authVars, ledgerVars, quoteVars, historical_data, cache_metadata, search_cache, stocks,
                   storeCall, search>>

\* await getSimpleStockData(symbol, useCache) for the symbol of this turn
compareStocks_fetch ==
    /\ compare.pc = "loop"
    /\ fetch.n = compare.base + compare.i - 1
    /\ getSimpleStockData(compare.symbols[compare.i], compare.useCache)

\* the fetch of this turn has settled: push its entry, wait 200 ms, go on
\* with the next symbol or return stockData
compareStocks_push ==
    /\ compare.pc = "loop"
    /\ fetch.n = compare.base + compare.i /\ fetch.pc = "done"
    /\ compare' = [compare EXCEPT
                      !.stockData = PushEntry(@, CompareEntry(compare.symbols[compare.i], fetch)),
                      !.i = @ + 1,
                      !.pc = IF compare.i = Len(compare.symbols) THEN "done" ELSE "loop"]
    /\ UNCHANGED <<authVars, ledgerVars, quoteVars, historical_data, cache_metadata, search_cache, stocks,
                   storeCall, search>>

\* --------------------------------------- historical bars, cache metadata
\* a write that keeps the stored row when its key is already taken, and a
\* deletion test on the instants the texts stand for
InsertOrIgnore(tbl, row, key) ==
    IF \E r \in tbl : \A f \in key : r[f] = row[f] THEN tbl ELSE tbl \cup {row}

MinutesPerDay == 1440

\* timestamps are stored as text. datetime('now') of SQLite gives
\* 'YYYY-MM-DD HH:MM:SS', Date.toISOString() gives 'YYYY-MM-DDTHH:MM:SS.sssZ':
\* a text is <<day, separator, minute of the day>>
datetime(t) == <<t \div MinutesPerDay, " ", t % MinutesPerDay>>
toISOString(t) == <<t \div MinutesPerDay, "T", t % MinutesPerDay>>

\* the instant a timestamp text stands for
InstantOf(text) == text[1] * MinutesPerDay + text[3]

InstantBefore(a, b) == InstantOf(a) < InstantOf(b)

\* a < b of SQLite on two TEXT values: bytewise, so ' ' (0x20) sorts before
\* 'T' (0x54)
TextBefore(a, b) ==
    LET byte(c) == IF c = " " THEN 32 ELSE 84 IN
    \/ a[1] < b[1]
    \/ a[1] = b[1] /\ byte(a[2]) < byte(b[2])
    \/ a[1] = b[1] /\ a[2] = b[2] /\ a[3] < b[3]

\* INSERT OR REPLACE: rows that collide with the new row on a unique key are
\* deleted, then the row is inserted
InsertOrReplace(tbl, row, key) ==
    {r \in tbl : \E f \in key : r[f] # row[f]} \cup {row}

\* CREATE UNIQUE INDEX idx_historical_unique
idx_historical_unique == {"symbol", "date", "period", "interval_type"}

\* a bar as getHistoricalData builds it: time is an ISO timestamp, date its
\* date part; the prices differ from payload to payload
DataPoint(t, v) ==
    [time |-> toISOString(t), date |-> <<t \div MinutesPerDay>>, open |-> 10 * v + 1,
     high |-> 10 * v + 2, low |-> 10 * v + 3, close |-> 10 * v + 4, volume |-> 10 * v + 5]
BarLists ==
    LET DataPoints == {DataPoint(t, v) : t \in {0, MinutesPerDay}, v \in 1..MaxPayloads}
    IN  {<<>>} \cup {<<a>> : a \in DataPoints} \cup {<<a, b>> : a, b \in DataPoints}

\* the row one stmt.run of cacheHistoricalData binds
HistoricalRow(symbol, period, interval, dataPoint, t) ==
    [symbol |-> symbol,
     date |-> IF dataPoint.date # <<>> THEN dataPoint.date[1] ELSE dataPoint.time[1],
     period |-> period, interval_type |-> interval,
     open_price |-> dataPoint.open, high_price |-> dataPoint.high,
     low_price |-> dataPoint.low, close_price |-> dataPoint.close,
     volume |-> dataPoint.volume, timestamp |-> InstantOf(dataPoint.time),
     created_at |-> datetime(t)]

\* the loop over historicalData inside db.serialize
RECURSIVE CacheBars(_, _, _, _, _, _)
CacheBars(tbl, symbol, period, interval, historicalData, t) ==
    IF historicalData = <<>> THEN tbl
    ELSE CacheBars(InsertOrReplace(tbl, HistoricalRow(symbol, period, interval,
                                                      Head(historicalData), t),
                                   idx_historical_unique),
                   symbol, period, interval, Tail(historicalData), t)

\* updateCacheMetadata: cache_key is the primary key; expires_at is bound as
\* an ISO text, last_fetched is CURRENT_TIMESTAMP
MetadataRow(tbl, symbol, dataType, period, ttlSeconds, t) ==
    LET cacheKey == <<symbol, dataType, period>>
        old == {r \in tbl : r.cache_key = cacheKey}
    IN  [cache_key |-> cacheKey, symbol |-> symbol, data_type |-> dataType, period |-> period,
         last_fetched |-> datetime(t), expires_at |-> toISOString(t + ttlSeconds \div 60),
         hit_count |-> (IF old = {} THEN 0 ELSE (CHOOSE r \in old : TRUE).hit_count) + 1]

updateCacheMetadata(tbl, symbol, dataType, period, ttlSeconds, t) ==
    InsertOrReplace(tbl, MetadataRow(tbl, symbol, dataType, period, ttlSeconds, t),
                    {"cache_key"})

StoreCall(name) ==
    [NoStoreCall EXCEPT
        !.name = name, !.n = storeCall.n + 1, !.at = now,
        !.pre = [quotes |-> quotes, historical_data |-> historical_data,
                 cache_metadata |-> cache_metadata, search_cache |-> search_cache]]

\* half an hour passes
Leap ==
    /\ now + 30 <= MaxClock
    /\ now' = now + 30
    /\ UNCHANGED <<authVars, cacheVars, ledgerVars, quotes, fetch, lookup>>

\* StockDatabase.cacheHistoricalData: the bars are written, then the
\* metadata of (symbol, 'historical', period) with a TTL of 3600 seconds; a
\* failure of the metadata statement rejects the call after the bars are in
cacheHistoricalData(symbol, period, interval, historicalData) ==
    /\ storeCall.n < MaxStoreCalls
    /\ historical_data' = CacheBars(historical_data, symbol, period, interval,
                                    historicalData, now)
    /\ LET call == [StoreCall("cacheHistoricalData") EXCEPT
                       !.symbol = symbol, !.period = period, !.interval = interval,
                       !.historicalData = historicalData]
       IN  \/ /\ cache_metadata' = updateCacheMetadata(cache_metadata, symbol, "historical",
                                                       period, 3600, now)
              /\ storeCall' = call
           \/ /\ storeCall' = [call EXCEPT !.rejected = TRUE]
              /\ UNCHANGED cache_metadata
    /\ UNCHANGED <<authVars, ledgerVars, quoteVars, search_cache, stocks, search, compare>>

\* the rows DELETE FROM cache_metadata WHERE expires_at < datetime('now')
\* removes at time t
ExpiredMetadata(tbl, t) == {r \in tbl : TextBefore(r.expires_at, datetime(t))}

\* StockDatabase.cleanExpiredCache: resolves with this.changes
cleanExpiredCache ==
    /\ storeCall.n < MaxStoreCalls
    /\ \/ /\ cache_metadata' = cache_metadata \ ExpiredMetadata(cache_metadata, now)
          /\ storeCall' = [StoreCall("cleanExpiredCache") EXCEPT
                              !.answer = <<Cardinality(ExpiredMetadata(cache_metadata, now))>>]
       \/ /\ storeCall' = [StoreCall("cleanExpiredCache") EXCEPT !.rejected = TRUE]
          /\ UNCHANGED cache_metadata
    /\ UNCHANGED <<authVars, ledgerVars, quoteVars, historical_data, search_cache, stocks, search, compare>>

\* ----------------------------------------------------------- searchStocks
\* a key that keeps the query as typed, and an online search that ignores
\* the caller's switch
toLowerCaseNot(query) == query
SearchesOnlineAlways(results, online) == results = <<>>

\* a query is a word typed in lower case or in upper case
toLowerCase(query) == [query EXCEPT !.upper = FALSE]
Queries == [word : {"tesla", "zzz"}, upper : BOOLEAN]

SearchTtlMinutes == 60

\* db.searchStocks: the rows of the local index the query matches (LIKE is
\* case-insensitive), at most `limit` of them
LocalResults(query, limit) ==
    IF \E r \in stocks : r.search_terms = query.word
    THEN <<CHOOSE r \in stocks : r.search_terms = query.word>> ELSE <<>>

\* StockDatabase.cacheSearchResults: the row is keyed by the lowercased
\* query and expires an hour after the write
cacheSearchResults(tbl, query, results, t) ==
    InsertOrReplace(tbl, [query |-> toLowerCase(query), results |-> results,
                          result_count |-> Len(results), source |-> "online",
                          created_at |-> datetime(t),
                          expires_at |-> datetime(t + SearchTtlMinutes)],
                    {"query"})

\* StockDatabase.getCachedSearchResults: the rows WHERE query = ? AND
\* expires_at > datetime('now')
getCachedSearchResults(tbl, query, t) ==
    {r \in tbl : r.query = toLowerCase(query) /\ TextBefore(datetime(t), r.expires_at)}

\* the two search endpoints and what their parsers can give: an exception,
\* no result, or a list of results
SearchEndpoints == <<"Yahoo Finance Search", "Yahoo Finance Autosuggest">>
Item(symbol) == [symbol |-> symbol, shortname |-> <<symbol, " Inc">>, longname |-> <<>>,
                 exchange |-> "NASDAQ", type |-> <<>>]
SearchResponses ==
    {[kind |-> "throws", results |-> <<>>], [kind |-> "results", results |-> <<>>],
     [kind |-> "results", results |-> <<Item("TSLA"), Item("TSLL")>>],
     [kind |-> "results", results |-> <<Item("TSLA"), Item("TSLA")>>]}

\* the manualMappings table: 'tesla' is one of its keys
ManualMappings(lowerQuery) ==
    IF lowerQuery.word = "tesla" THEN <<[Item("TSLA") EXCEPT !.type = <<"EQUITY">>]>> ELSE <<>>

\* results.filter((result, index, self) => index === self.findIndex(...))
uniqueResults(results) ==
    SelectSeq([i \in 1..Len(results) |->
                  [item |-> results[i],
                   first |-> \A j \in 1..(i - 1) : results[j].symbol # results[i].symbol]],
              LAMBDA x : x.first)

slice(list, limit) == SubSeq(list, 1, IF limit < Len(list) THEN limit ELSE Len(list))

\* the results of searchOnlineStocks once its endpoint loop is over
OnlineResults(results, query, limit) ==
    LET found == IF results = <<>> THEN ManualMappings(toLowerCase(query)) ELSE results
        unique == uniqueResults(found)
    IN  slice([i \in 1..Len(unique) |-> unique[i].item], limit)

\* the shape searchStocks gives to an online result
OnlineEntry(result) ==
    [symbol |-> result.symbol,
     name |-> IF result.shortname # <<>> THEN result.shortname ELSE result.longname,
     long_name |-> result.longname, exchange |-> result.exchange,
     type |-> IF result.type # <<>> THEN result.type ELSE <<"EQUITY">>,
     source |-> "Online Search"]

SearchesOnline(results, online) == results = <<>> /\ online

\* the object searchStocks returns at its end
SearchAnswer(results) ==
    [resultsCount |-> Len(results),
     source |-> IF Len(results) > 0 /\ results[1].source = "Online Search"
                THEN <<"Online">> ELSE <<"Database">>,
     results |-> results]

\* searchStocks up to the answer of the local index
searchStocks(query, limit, online) ==
    /\ search.pc \in {"idle", "done"} /\ search.n < MaxSearchCalls
    /\ LET call == [NoSearch EXCEPT !.n = search.n + 1, !.query = query, !.limit = limit,
                                    !.online = online, !.at = now, !.accessed = <<"local">>]
           results == LocalResults(query, limit)
       IN  \/ search' = [call EXCEPT !.pc = "done", !.rejected = TRUE]
           \/ search' = IF results = <<>>
                        THEN [call EXCEPT !.pc = "cache"]
                        ELSE [call EXCEPT !.pc = "done", !.returned = TRUE,
                                          !.answer = SearchAnswer(
                                              [i \in 1..Len(results) |->
                                                  [symbol |-> results[i].symbol, source |-> ""]])]
    /\ UNCHANGED <<authVars, ledgerVars, quoteVars, historical_data, cache_metadata, search_cache, stocks,
                   storeCall, compare>>

\* the answer of db.getCachedSearchResults(query): a hit is returned, a miss
\* leads to the online search if it is wanted
searchStocks_cache ==
    /\ search.pc = "cache"
    /\ LET cached == getCachedSearchResults(search_cache, search.query, now)
           read == [search EXCEPT !.accessed = Append(@, "cache")]
       IN  \/ search' = [read EXCEPT !.pc = "done", !.rejected = TRUE]
           \/ IF cached # {}
              THEN \E cachedSearch \in cached :
                      search' = [read EXCEPT
                                    !.pc = "done", !.returned = TRUE, !.hit = TRUE,
                                    !.answer = [resultsCount |-> cachedSearch.result_count,
                                                source |-> <<"Cached ", cachedSearch.source>>,
                                                results |-> slice(cachedSearch.results,
                                                                  search.limit)]]
              ELSE IF SearchesOnline(<<>>, search.online)
              THEN search' = [read EXCEPT !.pc = "online", !.k = 1]
              ELSE search' = [read EXCEPT !.pc = "done", !.returned = TRUE,
                                          !.answer = SearchAnswer(<<>>)]
    /\ UNCHANGED <<authVars, ledgerVars, quoteVars, historical_data, cache_metadata, search_cache, stocks,
                   storeCall, compare>>

\* one turn of the endpoint loop of searchOnlineStocks; after the loop the
\* results are completed, limited and, if there are any, handed to the cache
searchOnlineStocks(response) ==
    /\ search.pc = "online"
    /\ LET asked == [search EXCEPT !.accessed = Append(@, SearchEndpoints[search.k])]
           onlineResults == OnlineResults(response.results, search.query, search.limit)
       IN  search' =
             IF response.results = <<>> /\ search.k < Len(SearchEndpoints)
             THEN [asked EXCEPT !.k = @ + 1]
             ELSE IF onlineResults # <<>>
             THEN [asked EXCEPT !.pc = "cache_write", !.onlineResults = onlineResults]
             ELSE [asked EXCEPT !.pc = "done", !.returned = TRUE, !.answer = SearchAnswer(<<>>)]
    /\ UNCHANGED <<authVars, ledgerVars, quoteVars, historical_data, cache_metadata, search_cache, stocks,
                   storeCall, compare>>

\* db.cacheSearchResults(query, onlineResults) inside try/catch, then the
\* online results are returned
searchStocks_cacheWrite ==
    /\ search.pc = "cache_write"
    /\ LET results == [i \in 1..Len(search.onlineResults) |->
                          OnlineEntry(search.onlineResults[i])]
           done == [search EXCEPT !.pc = "done", !.returned = TRUE,
                                  !.answer = SearchAnswer(results)]
       IN  \/ /\ search_cache' = cacheSearchResults(search_cache, search.query,
                                                    search.onlineResults, now)
              /\ search' = [done EXCEPT !.written = TRUE]
           \/ /\ search' = done
              /\ UNCHANGED search_cache
    /\ UNCHANGED <<authVars, ledgerVars, quoteVars, historical_data, cache_metadata, stocks, storeCall,
                   compare>>

\* ------------------------------------------------------ getHistoricalData
\* StockDatabase.getCachedHistoricalData: the rows of (symbol, period)
\* created less than maxAgeHours ago, in an order that ascends by date; rows
\* of one date come in any order
getCachedHistoricalData(tbl, symbol, period, maxAgeHours, t) ==
    LET rows == {r \in tbl : /\ r.symbol = symbol /\ r.period = period
                             /\ TextBefore(datetime(t - 60 * maxAgeHours), r.created_at)}
        n == Cardinality(rows)
    IN  {f \in [1..n -> rows] :
            /\ \A i, j \in 1..n : i < j => f[i] # f[j] /\ f[i].date <= f[j].date}

\* one bar of chart.result[0]: its timestamp and its entries in the arrays
\* of indicators.quote[0]
ChartBar(t, v) ==
    [timestamp |-> t, open |-> DataPoint(t, v).open, high |-> DataPoint(t, v).high,
     low |-> DataPoint(t, v).low, close |-> DataPoint(t, v).close,
     volume |-> DataPoint(t, v).volume]

\* what a chart endpoint can give: an exception, one bar, two bars of one
\* day (an intraday window), or two bars of two days
ChartResponses ==
    {[kind |-> "throws", bars |-> <<>>],
     [kind |-> "chart", bars |-> <<ChartBar(0, 1)>>],
     [kind |-> "chart", bars |-> <<ChartBar(0, 1), ChartBar(30, 2)>>],
     [kind |-> "chart", bars |-> <<ChartBar(0, 1), ChartBar(MinutesPerDay, 2)>>]}

\* the bars a cache hit returns: timestamp, open, high, low, close and
\* volume of each row, in the order of the rows
CachedBars(rows) ==
    [i \in 1..Len(rows) |->
        [timestamp |-> rows[i].timestamp, open |-> rows[i].open_price,
         high |-> rows[i].high_price, low |-> rows[i].low_price,
         close |-> rows[i].close_price, volume |-> rows[i].volume]]

\* getHistoricalData up to its first upstream request: the cache read
getHistoricalData(symbol, period, interval, useCache) ==
    /\ hist.pc \in {"idle", "done"} /\ hist.n < MaxHistCalls
    /\ LET call == [NoHist EXCEPT
                       !.n = hist.n + 1, !.symbol = symbol, !.period = period,
                       !.interval = interval, !.useCache = useCache, !.at = now,
                       !.prev = [symbol |-> hist.symbol, period |-> hist.period,
                                 interval |-> hist.interval, bars |-> hist.bars,
                                 useCache |-> hist.useCache,
                                 written |-> hist.written, returned |-> hist.returned,
                                 contacted |-> hist.contacted,
                                 finished |-> IF hist.pc = "done" THEN hist.at ELSE -1]]
       IN  IF useCache
           THEN \/ hist' = [call EXCEPT !.pc = "done", !.rejected = TRUE]
                \/ \E cached \in getCachedHistoricalData(historical_data, symbol, period, 1, now) :
                      hist' = IF Len(cached) > 0
                              THEN [call EXCEPT !.pc = "done", !.returned = TRUE,
                                                !.cached = TRUE, !.rows = cached,
                                                !.bars = CachedBars(cached)]
                              ELSE [call EXCEPT !.pc = "primary"]
           ELSE hist' = [call EXCEPT !.pc = "primary"]
    /\ UNCHANGED <<login_attempts, auth, cacheVars, ledgerVars, quoteVars>>

\* the answer of query1: the bars are cached (a failure of the cache is
\* logged only) and returned; an exception leads to the fallback
getHistoricalData_primary(response) ==
    /\ hist.pc = "primary"
    /\ LET asked == [hist EXCEPT !.contacted = Append(@, "query1"), !.at = now]
           historicalData ==
              [i \in 1..Len(response.bars) |->
                  [time |-> toISOString(response.bars[i].timestamp),
                   date |-> <<toISOString(response.bars[i].timestamp)[1]>>,
                   open |-> response.bars[i].open, high |-> response.bars[i].high,
                   low |-> response.bars[i].low, close |-> response.bars[i].close,
                   volume |-> response.bars[i].volume]]
           served == [asked EXCEPT !.pc = "done", !.returned = TRUE, !.bars = response.bars]
       IN  IF response.kind = "throws"
           THEN /\ hist' = [asked EXCEPT !.pc = "fallback"]
                /\ UNCHANGED <<historical_data, cache_metadata>>
           ELSE IF ~hist.useCache
           THEN /\ hist' = served
                /\ UNCHANGED <<historical_data, cache_metadata>>
           ELSE /\ historical_data' = CacheBars(historical_data, hist.symbol, hist.period,
                                                hist.interval, historicalData, now)
                /\ \/ /\ cache_metadata' = updateCacheMetadata(cache_metadata, hist.symbol,
                                                               "historical", hist.period, 3600, now)
                      /\ hist' = [served EXCEPT !.written = TRUE]
                   \/ /\ hist' = served
                      /\ UNCHANGED cache_metadata
    /\ UNCHANGED <<login_attempts, auth, ledgerVars, quoteVars, search_cache, stocks, storeCall,
                   search, compare>>

\* the answer of query2: the bars are returned as they are, or the call
\* throws
getHistoricalData_fallback(response) ==
    /\ hist.pc = "fallback"
    /\ LET asked == [hist EXCEPT !.contacted = Append(@, "query2"), !.at = now, !.pc = "done"]
       IN  hist' = IF response.kind = "throws"
                   THEN [asked EXCEPT !.failed = TRUE]
                   ELSE [asked EXCEPT !.returned = TRUE, !.bars = response.bars]
    /\ UNCHANGED <<login_attempts, auth, cacheVars, ledgerVars, quoteVars>>

\* ------------------------------------------------------ AuthManager.signin
MAX_LOGIN_ATTEMPTS == 5
LOCKOUT_DURATION_MINUTES == 15

\* the count of failed attempts without the time window (the query that
\* getFailedLoginAttempts runs when no minutes are given)
getFailedLoginAttemptsEver(tbl, email, minutes, t) ==
    Len(SelectSeq(tbl, LAMBDA r : r.email = toLowerCase(email) /\ ~r.success))

\* the addresses that sign in: ann is registered and active, bob is
\* registered and deactivated, eve is not registered; each is written in
\* lower case or with capitals
Emails == [word : {"ann", "bob", "eve"}, upper : BOOLEAN]
users ==
    {[email |-> [word |-> "ann", upper |-> FALSE], is_active |-> TRUE],
     [email |-> [word |-> "bob", upper |-> FALSE], is_active |-> FALSE]}

\* INSERT INTO login_attempts (email, ip_address, success); attempted_at is
\* CURRENT_TIMESTAMP
logLoginAttempt(tbl, email, success, t) ==
    Append(tbl, [email |-> toLowerCase(email), success |-> success, attempted_at |-> datetime(t)])

\* SELECT COUNT(*) ... WHERE email = ? AND success = FALSE AND attempted_at >
\* datetime('now', '-N minutes')
getFailedLoginAttempts(tbl, email, minutes, t) ==
    Len(SelectSeq(tbl, LAMBDA r : /\ r.email = toLowerCase(email) /\ ~r.success
                                  /\ TextBefore(datetime(t - minutes), r.attempted_at)))

\* DELETE FROM login_attempts WHERE email = ?
clearLoginAttempts(tbl, email) == SelectSeq(tbl, LAMBDA r : r.email # toLowerCase(email))

\* SELECT * FROM users WHERE email = ?
getUserByEmail(email) == {u \in users : u.email = toLowerCase(email)}

\* signin with a well-formed address; `correct` says whether the password
\* matches the stored hash
signin(email, correct) ==
    /\ auth.n < MaxSignins
    /\ LET failedAttempts == getFailedLoginAttempts(login_attempts, email,
                                                    LOCKOUT_DURATION_MINUTES, now)
           user == getUserByEmail(email)
           call == [NoSignin EXCEPT !.n = auth.n + 1, !.email = email, !.correct = correct,
                                    !.at = now, !.failedAttempts = failedAttempts,
                                    !.pre = login_attempts]
           error == IF failedAttempts >= MAX_LOGIN_ATTEMPTS THEN "Account temporarily locked"
                    ELSE IF user = {} THEN "Invalid email or password"
                    ELSE IF \E u \in user : ~u.is_active THEN "Account is deactivated"
                    ELSE IF ~correct THEN "Invalid email or password"
                    ELSE ""
       IN  IF error # ""
           THEN /\ login_attempts' = logLoginAttempt(login_attempts, email, FALSE, now)
                /\ auth' = [call EXCEPT !.error = error]
           ELSE /\ login_attempts' = logLoginAttempt(clearLoginAttempts(login_attempts, email),
                                                     email, TRUE, now)
                /\ auth' = [call EXCEPT !.tokens = TRUE]
    /\ UNCHANGED <<hist, cacheVars, ledgerVars, quoteVars>>

\* five minutes pass
Wait ==
    /\ now + 5 <= MaxAuthClock
    /\ now' = now + 5
    /\ UNCHANGED <<authVars, cacheVars, ledgerVars, quotes, fetch, lookup>>

\* ------------------------------------------------------- specifications
Quiet == \A q \in Procs : ~Running(q)

\* a request enters one of the four entry points
Call(p) ==
    \/ \E a \in Amounts : addUserBalance(p, a)
    \/ \E a \in Amounts : removeUserBalance(p, a)
    \/ \E s \in Symbols, q \in Quantities, pr \in Prices, f \in FetchOutcomes :
          buyStock(p, s, q, pr, f)
    \/ \E s \in Symbols, q \in Quantities, pr \in Prices : sellStock(p, s, q, pr)
    \/ getUserPortfolio(p)
    \/ getUserWallet(p)
    \/ signup(p)

\* a call in flight gets the answer of its next round trip
Step(p) ==
    \/ getWalletBalance(p)
    \/ createWallet(p)
    \/ updateWalletBalance_tx(p)
    \/ updateWalletBalance_cb(p)
    \/ buyStock_getHolding(p)
    \/ buyStock_tx(p)
    \/ buyStock_cb(p)
    \/ \E f \in FetchOutcomes : sellStock_getPortfolio(p, f)
    \/ sellStock_getHolding(p)
    \/ sellStock_tx(p)
    \/ sellStock_cb(p)
    \/ \E o \in [Symbols -> QuoteOutcomes] : getUserPortfolio_read(p, o)
    \/ updatePortfolioCurrentPrices_tx(p)
    \/ updatePortfolioCurrentPrices_cb(p)

\* overlapping calls: a request may arrive while another is in flight
Next == \E p \in Procs : (ncalls < MaxOverlapCalls /\ Call(p)) \/ Step(p)

\* all interleavings of overlapping calls
Spec == Init /\ [][Next]_vars

\* calls one after the other: a call begins only when no other is in flight
SeqNext == \E p \in Procs : (Quiet /\ Call(p)) \/ Step(p)

SeqSpec == Init /\ [][SeqNext]_vars

\* the quote cache on its own: the ledger stays empty and idle; a quote of
\* TCS may have been cached at time 0
QuoteInit ==
    /\ variant = "tx"
    /\ FreshLedger
    /\ pc = [p \in Procs |-> "idle"]
    /\ op = [p \in Procs |-> NoOp]
    /\ loc = [p \in Procs |-> NoLoc]
    /\ res = [p \in Procs |-> NoRes]
    /\ pre = [p \in Procs |-> Snapshot]
    /\ ncalls = 0
    /\ now = 0
    /\ quotes \in {<<>>, <<QuoteRow("TCS", StockData(Payload("TCS", 1)), 0)>>}
    /\ fetch = NoFetch
    /\ lookup = NoLookup
    /\ CacheIdle

QuoteNext ==
    \/ Tick
    \/ \E s \in Symbols, m \in MaxAges : getCachedQuote(s, m)
    \/ \E s \in Symbols, u \in BOOLEAN : getSimpleStockData(s, u)
    \/ \E r \in Responses(fetch.symbol) : contactEndpoint(r)
    \/ cacheQuote

QuoteSpec == QuoteInit /\ [][QuoteNext]_vars


\* the historical-bar cache and its metadata on their own, late in the
\* evening of day 0: bars of TCS may have been cached an hour before
CacheInit ==
    /\ variant = "tx"
    /\ FreshLedger
    /\ pc = [p \in Procs |-> "idle"]
    /\ op = [p \in Procs |-> NoOp]
    /\ loc = [p \in Procs |-> NoLoc]
    /\ res = [p \in Procs |-> NoRes]
    /\ pre = [p \in Procs |-> Snapshot]
    /\ ncalls = 0
    /\ now = MinutesPerDay - 60
    /\ quotes = <<QuoteRow("TCS", StockData(Payload("TCS", 1)), now)>>
    /\ fetch = NoFetch
    /\ lookup = NoLookup
    /\ \/ historical_data = {} /\ cache_metadata = {}
       \/ /\ historical_data = CacheBars({}, "TCS", "1mo", "1d", <<DataPoint(0, 1)>>, now - 60)
          /\ cache_metadata = updateCacheMetadata({}, "TCS", "historical", "1mo", 3600, now - 60)
    /\ search_cache = {}
    /\ stocks = {}
    /\ storeCall = NoStoreCall
    /\ search = NoSearch
    /\ compare = NoCompare
    /\ AuthIdle

CacheNext ==
    \/ Leap
    \/ \E s \in Symbols, p \in {"1d", "1mo"}, h \in BarLists : cacheHistoricalData(s, p, "1d", h)
    \/ cleanExpiredCache

CacheSpec == CacheInit /\ [][CacheNext]_vars


\* compareStocks over the quote cache
CompareNext ==
    \/ Tick
    \/ \E l \in SymbolLists, u \in BOOLEAN : compareStocks(l, u)
    \/ compareStocks_fetch
    \/ \E r \in Responses(fetch.symbol) : contactEndpoint(r)
    \/ cacheQuote
    \/ compareStocks_push

CompareSpec == QuoteInit /\ [][CompareNext]_vars


\* searchStocks over the search cache, from the same evening on; the local
\* index is empty or knows TSLA
SearchInit ==
    /\ variant = "tx"
    /\ FreshLedger
    /\ pc = [p \in Procs |-> "idle"]
    /\ op = [p \in Procs |-> NoOp]
    /\ loc = [p \in Procs |-> NoLoc]
    /\ res = [p \in Procs |-> NoRes]
    /\ pre = [p \in Procs |-> Snapshot]
    /\ ncalls = 0
    /\ now = MinutesPerDay - 60
    /\ quotes = <<>>
    /\ fetch = NoFetch
    /\ lookup = NoLookup
    /\ historical_data = {}
    /\ cache_metadata = {}
    /\ search_cache = {}
    /\ stocks \in {{}, {[symbol |-> "TSLA", search_terms |-> "tesla"]}}
    /\ storeCall = NoStoreCall
    /\ search = NoSearch
    /\ compare = NoCompare
    /\ AuthIdle

SearchNext ==
    \/ Leap
    \/ \E q \in Queries, l \in 1..2, o \in BOOLEAN : searchStocks(q, l, o)
    \/ searchStocks_cache
    \/ \E r \in SearchResponses : searchOnlineStocks(r)
    \/ searchStocks_cacheWrite

SearchSpec == SearchInit /\ [][SearchNext]_vars


\* getHistoricalData over the historical-bar cache
HistNext ==
    \/ Leap
    \/ \E s \in Symbols, i \in {"5m", "1d"}, u \in BOOLEAN : getHistoricalData(s, "1mo", i, u)
    \/ \E r \in ChartResponses : getHistoricalData_primary(r)
    \/ \E r \in ChartResponses : getHistoricalData_fallback(r)

HistSpec == CacheInit /\ [][HistNext]_vars


\* signin over the login_attempts table: no attempt was made yet, or ann
\* failed four times five minutes ago
AuthInit ==
    /\ variant = "tx"
    /\ FreshLedger
    /\ pc = [p \in Procs |-> "idle"]
    /\ op = [p \in Procs |-> NoOp]
    /\ loc = [p \in Procs |-> NoLoc]
    /\ res = [p \in Procs |-> NoRes]
    /\ pre = [p \in Procs |-> Snapshot]
    /\ ncalls = 0
    /\ now = MinutesPerDay - 20
    /\ quotes = <<>>
    /\ fetch = NoFetch
    /\ lookup = NoLookup
    /\ historical_data = {}
    /\ cache_metadata = {}
    /\ search_cache = {}
    /\ stocks = {}
    /\ storeCall = NoStoreCall
    /\ search = NoSearch
    /\ compare = NoCompare
    /\ hist = NoHist
    /\ auth = NoSignin
    /\ login_attempts \in
          {<<>>,
           [i \in 1..(MAX_LOGIN_ATTEMPTS - 1) |->
               [email |-> [word |-> "ann", upper |-> FALSE], success |-> FALSE,
                attempted_at |-> datetime(MinutesPerDay - 25)]]}

AuthNext ==
    \/ Wait
    \/ \E e \in Emails, c \in BOOLEAN : signin(e, c)

AuthSpec == AuthInit /\ [][AuthNext]_vars


\* ------------------------------------------------------------ properties
Done(p) == pc[p] = "done"
Succeeded(p, name) == Done(p) /\ op[p].name = name /\ res[p].success
TotalCost(p) == op[p].quantity * loc[p].stockPrice

\* the ledger is as it was when the call in slot p began
LedgerUnchanged(p) ==
    /\ Balance = pre[p].balance
    /\ portfolio_holdings = pre[p].holdings
    /\ stock_transactions = pre[p].stock_transactions
    /\ wallet_transactions = pre[p].wallet_transactions

\* the holding of symbol s among the rows `tbl`
HeldBefore(p) == HoldingRows(pre[p].holdings, USER, op[p].symbol)
HeldNow(p) == HoldingRows(portfolio_holdings, USER, op[p].symbol)

\* a withdraw, or a buy with a resolved price, that asks for more than the
\* balance the call found
Overdraws(p) ==
    \/ op[p].name = "withdraw" /\ op[p].amount > pre[p].balance
    \/ op[p].name = "buy" /\ op[p].quantity > 0 /\ loc[p].stockPrice > 0
         /\ TotalCost(p) > pre[p].balance

\* C1: with calls one after the other the wallet balance is never negative,
\* and a withdraw or a buy that asks for more than the balance returns
\* success = false and leaves balance, holdings and both logs as they were.
C1_BalanceNeverNegative ==
    /\ Balance >= 0
    /\ \A p \in Procs : Done(p) /\ Overdraws(p) => ~res[p].success /\ LedgerUnchanged(p)

\* C1 witness: a buy that costs more than a positive balance was rejected
C1_Witness ==
    \E p \in Procs : Done(p) /\ op[p].name = "buy" /\ Overdraws(p)
                     /\ pre[p].balance > 0 /\ ~res[p].success

\* C2: two withdraw calls that began from the same ledger and both report
\* success leave the balance at the initial balance minus both amounts, so
\* the amounts together did not exceed it.
C2_WithdrawalsSerialized ==
    \A p, q \in Procs :
        p # q /\ Succeeded(p, "withdraw") /\ Succeeded(q, "withdraw") /\ pre[p] = pre[q]
        => /\ Balance = pre[p].balance - op[p].amount - op[q].amount
           /\ op[p].amount + op[q].amount <= pre[p].balance

\* C3: under every interleaving of overlapping buys the balance stays
\* non-negative: two buys that began from the same ledger and both succeed
\* cost together no more than the balance they found.
C3_OverlappingBuysKeepBalance ==
    \A p, q \in Procs :
        p # q /\ Succeeded(p, "buy") /\ Succeeded(q, "buy") /\ pre[p] = pre[q]
        => /\ Balance >= 0
           /\ TotalCost(p) + TotalCost(q) <= pre[p].balance

\* C4: in both implementations a buy whose stock-transaction insert or
\* holding insert/update fails after the wallet debit reports failure and
\* leaves balance, both logs and the holdings as they were before the call.
C4_FailedBuyRolledBack ==
    \A p \in Procs :
        Done(p) /\ op[p].name = "buy" /\ res[p].error \in BuyFailures
        => ~res[p].success /\ LedgerUnchanged(p)

\* C5: a successful sell of q shares at price p raises the balance by q*p.
C5_SellCreditsProceeds ==
    \A p \in Procs : Succeeded(p, "sell") => Balance = pre[p].balance + TotalCost(p)

\* C6: a successful buy of q shares at price p of a symbol the user held
\* none of leaves balance B - q*p, a holding with quantity q, average price p
\* and invested amount q*p, and appends exactly one BUY row and exactly one
\* STOCK_PURCHASE row.
C6_FirstBuy ==
    \A p \in Procs :
        Succeeded(p, "buy") /\ HeldBefore(p) = <<>>
        => /\ Balance = pre[p].balance - TotalCost(p)
           /\ Len(HeldNow(p)) = 1
           /\ HeldNow(p)[1].quantity = op[p].quantity
           /\ HeldNow(p)[1].average_price = <<loc[p].stockPrice, 1>>
           /\ HeldNow(p)[1].invested_amount = <<TotalCost(p), 1>>
           /\ Len(stock_transactions) = Len(pre[p].stock_transactions) + 1
           /\ SubSeq(stock_transactions, 1, Len(pre[p].stock_transactions))
                 = pre[p].stock_transactions
           /\ stock_transactions[Len(stock_transactions)] =
                 [user_id |-> USER, symbol |-> op[p].symbol, transaction_type |-> "BUY",
                  quantity |-> op[p].quantity, price |-> loc[p].stockPrice,
                  total_amount |-> TotalCost(p)]
           /\ Len(wallet_transactions) = Len(pre[p].wallet_transactions) + 1
           /\ SubSeq(wallet_transactions, 1, Len(pre[p].wallet_transactions))
                 = pre[p].wallet_transactions
           /\ wallet_transactions[Len(wallet_transactions)].transaction_type = "STOCK_PURCHASE"
           /\ wallet_transactions[Len(wallet_transactions)].amount = TotalCost(p)

\* C6 witness: a first buy of a symbol succeeded and took money
C6_Witness ==
    \E p \in Procs : Succeeded(p, "buy") /\ HeldBefore(p) = <<>>
                     /\ op[p].quantity > 1 /\ Balance < pre[p].balance

\* the BUY and SELL rows of one symbol, oldest first
TradesOf(s) == SelectSeq(stock_transactions, LAMBDA r : r.user_id = USER /\ r.symbol = s)

TwoBuys(L) ==
    /\ Len(L) >= 2
    /\ L[1].transaction_type = "BUY"
    /\ L[2].transaction_type = "BUY"

\* C7: after two successful buys of a symbol, q1 at p1 then q2 at p2, the
\* holding has quantity q1+q2, invested amount q1*p1+q2*p2 and an average
\* price of invested amount / quantity; a sell of q1+q2 that follows removes
\* the holding row.
C7_TwoBuysThenSellAll ==
    \A s \in Symbols :
        LET L == TradesOf(s)
            h == HoldingRows(portfolio_holdings, USER, s)
        IN  /\ Len(L) = 2 /\ TwoBuys(L)
               => /\ Len(h) = 1
                  /\ h[1].quantity = L[1].quantity + L[2].quantity
                  /\ h[1].invested_amount = <<L[1].total_amount + L[2].total_amount, 1>>
                  /\ h[1].average_price[2] > 0
                  /\ h[1].average_price[1] * h[1].quantity
                        = (L[1].total_amount + L[2].total_amount) * h[1].average_price[2]
            /\ Len(L) = 3 /\ TwoBuys(L) /\ L[3].transaction_type = "SELL"
                  /\ L[3].quantity = L[1].quantity + L[2].quantity
               => h = <<>>

\* C7 witness: two buys at different prices, then everything sold
C7_Witness ==
    \E s \in Symbols :
        LET L == TradesOf(s) IN
        /\ Len(L) = 3 /\ TwoBuys(L) /\ L[3].transaction_type = "SELL"
        /\ L[1].price # L[2].price
        /\ L[3].quantity = L[1].quantity + L[2].quantity
        /\ HoldingRows(portfolio_holdings, USER, s) = <<>>
        /\ variant = "tx"

\* C8: a successful sell of q shares out of Q > q leaves quantity Q - q and
\* an invested amount of ((Q - q) / Q) times the invested amount before.
C8_PartialSell ==
    \A p \in Procs :
        Succeeded(p, "sell") /\ HeldBefore(p) # <<>>
        => LET before == HeldBefore(p)[1]
               Q == before.quantity
               q == op[p].quantity
           IN  Q > q
               => /\ Len(HeldNow(p)) = 1
                  /\ HeldNow(p)[1].quantity = Q - q
                  /\ HeldNow(p)[1].invested_amount[2] > 0
                  /\ HeldNow(p)[1].invested_amount[1] * Q * before.invested_amount[2]
                        = (Q - q) * before.invested_amount[1] * HeldNow(p)[1].invested_amount[2]

\* C8 witness: one share out of three was sold
C8_Witness ==
    \E p \in Procs :
        /\ Succeeded(p, "sell") /\ HeldBefore(p) # <<>>
        /\ HeldBefore(p)[1].quantity = 3 /\ op[p].quantity = 1
        /\ variant = "tx"

\* C9: with buys and sells one after the other every holdings row has a
\* quantity > 0 and there is at most one row per (user, symbol): a sale that
\* would leave 0 shares deletes the row.
C9_HoldingsWellFormed ==
    /\ \A i \in 1..Len(portfolio_holdings) : portfolio_holdings[i].quantity > 0
    /\ \A i, j \in 1..Len(portfolio_holdings) :
          /\ portfolio_holdings[i].user_id = portfolio_holdings[j].user_id
          /\ portfolio_holdings[i].symbol = portfolio_holdings[j].symbol
          => i = j

\* C9 witness: a sale of the whole holding succeeded and the row is gone
C9_Witness ==
    \E p \in Procs :
        /\ Succeeded(p, "sell") /\ HeldBefore(p) # <<>>
        /\ HeldBefore(p)[1].quantity = op[p].quantity
        /\ HeldNow(p) = <<>>
        /\ variant = "tx"

\* C10: every successful deposit, withdraw, buy and sell appends exactly one
\* WalletTransaction whose balance_after is the balance right after the
\* call; a failed call appends none.
C10_OneWalletTransactionPerCall ==
    \A p \in Procs :
        Done(p) /\ op[p].name \in {"deposit", "withdraw", "buy", "sell"} =>
            IF res[p].success
            THEN /\ Len(wallet_transactions) = Len(pre[p].wallet_transactions) + 1
                 /\ SubSeq(wallet_transactions, 1, Len(pre[p].wallet_transactions))
                       = pre[p].wallet_transactions
                 /\ wallet_transactions[Len(wallet_transactions)].balance_after = Balance
            ELSE wallet_transactions = pre[p].wallet_transactions


\* the sum of invested_amount over a result set of holdings
RECURSIVE SumInvested(_)
SumInvested(rows) ==
    IF rows = <<>> THEN <<0, 1>>
    ELSE RatAdd(rows[1].invested_amount, SumInvested(Tail(rows)))

\* C11: after every successful buy or sell the wallet's total_invested is
\* the sum of invested_amount over the user's holdings.
C11_TotalsRecomputed ==
    \A p \in Procs :
        Succeeded(p, "buy") \/ Succeeded(p, "sell")
        => /\ WalletRows(USER) # <<>>
           /\ WalletRows(USER)[1].total_invested = SumInvested(HoldingsOf(USER))

\* a sell of a valid quantity that asks for shares the user does not have
Oversells(p) ==
    /\ op[p].name = "sell"
    /\ op[p].quantity > 0
    /\ IF HeldBefore(p) = <<>> THEN TRUE ELSE HeldBefore(p)[1].quantity < op[p].quantity

\* C12: a sell of a symbol that is not held, or of more shares than are
\* held, fails with an error about the missing shares and leaves holdings,
\* balance and both logs unchanged.
C12_OversellRejected ==
    \A p \in Procs :
        Done(p) /\ Oversells(p)
        => /\ ~res[p].success
           /\ res[p].error \in {"You don't own any shares", "Insufficient shares",
                                "Insufficient shares to sell"}
           /\ LedgerUnchanged(p)

\* C12 witness: more shares than the holding has were asked for and refused
C12_Witness ==
    \E p \in Procs :
        /\ Done(p) /\ Oversells(p) /\ HeldBefore(p) # <<>>
        /\ ~res[p].success

\* a call whose amount or quantity argument is not positive
InvalidCall(p) ==
    \/ op[p].name \in {"deposit", "withdraw"} /\ op[p].amount <= 0
    \/ op[p].name \in {"buy", "sell"} /\ op[p].quantity <= 0

\* C13: a buy or sell with quantity <= 0 and a deposit or withdraw with
\* amount <= 0 returns success = false without a price fetch and without a
\* ledger read or write: no wallet row is created and no table changes.
C13_InvalidArgumentRejected ==
    \A p \in Procs :
        Done(p) /\ InvalidCall(p)
        => /\ ~res[p].success
           /\ loc[p].fetches = 0
           /\ user_wallets = pre[p].wallets
           /\ LedgerUnchanged(p)

\* C13 witness: a deposit of nothing into a ledger without a wallet row
C13_Witness ==
    \E p \in Procs :
        /\ Done(p) /\ op[p].name = "deposit" /\ InvalidCall(p)
        /\ user_wallets = <<>>


IsPrefix(a, b) == Len(a) <= Len(b) /\ SubSeq(b, 1, Len(a)) = a

\* C14: the two transaction logs are append-only: whatever wallet, trading
\* or price-refresh step is taken, each log before the step is a prefix of
\* the log after it.
C14_LogsAppendOnly ==
    [][/\ IsPrefix(stock_transactions, stock_transactions')
       /\ IsPrefix(wallet_transactions, wallet_transactions')]_vars

\* C14 witness: a price refresh wrote to the holdings while both logs held
\* rows of earlier calls
C14_Witness ==
    \E p \in Procs :
        /\ Succeeded(p, "refresh")
        /\ loc[p].stockPrices # <<>>
        /\ Len(stock_transactions) >= 2
        /\ Len(wallet_transactions) >= 3


\* a getUserWallet call that began when the user had no wallet row
FirstAccess(p) == Done(p) /\ op[p].name = "wallet" /\ pre[p].wallets = <<>>

\* C15: getWalletBalance for a user without a wallet creates one row with
\* balance 0 and returns it; two overlapping first accesses both return a
\* zero-balance wallet without error, and one wallet row exists afterwards.
C15_WalletCreatedOnce ==
    \A p, q \in Procs :
        p # q /\ FirstAccess(p) /\ FirstAccess(q)
        => /\ res[p].success /\ loc[p].newBalance = 0
           /\ res[q].success /\ loc[q].newBalance = 0
           /\ Len(WalletRows(USER)) = 1


\* rows of `tbl` for `symbol` written less than maxAgeMinutes before time t
WrittenWithin(tbl, symbol, maxAgeMinutes, t) ==
    {i \in 1..Len(tbl) : tbl[i].symbol = symbol /\ t - tbl[i].last_updated < maxAgeMinutes}

\* C16: getCachedQuote(symbol, maxAgeMinutes) gives a quote row if and only
\* if a quote of the symbol was written less than maxAgeMinutes ago (the row
\* it gives is such a row), and it contacts no upstream endpoint and writes
\* nothing.
C16_CachedQuoteIffFresh ==
    [][lookup' # lookup /\ lookup' # NoLookup /\ ~lookup'.rejected
       => LET young == WrittenWithin(quotes, lookup'.symbol, lookup'.maxAgeMinutes, now)
          IN  /\ lookup'.row # <<>> <=> young # {}
              /\ lookup'.row # <<>> => \E i \in young : lookup'.row[1] = quotes[i]
              /\ fetch'.contacted = fetch.contacted
              /\ quotes' = quotes]_vars

\* C16 witness: a quote exactly maxAgeMinutes old was reported absent
C16_Witness ==
    /\ lookup # NoLookup /\ ~lookup.rejected /\ lookup.row = <<>>
    /\ \E i \in 1..Len(quotes) :
          /\ quotes[i].symbol = lookup.symbol
          /\ lookup.at - quotes[i].last_updated = lookup.maxAgeMinutes

FetchDone == fetch.pc = "done"

SameQuote(a, b) ==
    /\ a.currentPrice = b.currentPrice
    /\ a.previousClose = b.previousClose
    /\ a.dayHigh = b.dayHigh
    /\ a.dayLow = b.dayLow
    /\ a.volume = b.volume

\* the call was made with useCache = true less than 5 minutes after a live
\* fetch of the same symbol had cached its quote
FollowsLiveFetch ==
    /\ FetchDone /\ fetch.useCache /\ ~fetch.readFailed
    /\ fetch.prev.written /\ fetch.prev.symbol = fetch.symbol
    /\ fetch.started - fetch.prev.at < 5

\* C17: when a quote of the symbol was cached less than 5 minutes before
\* the call, getSimpleStockData(symbol, true) returns it with cached = true
\* and contacts no endpoint; a call that follows a live fetch within 5
\* minutes returns the five price fields of that fetch.
C17_FreshQuoteServedFromCache ==
    /\ FetchDone /\ fetch.useCache /\ ~fetch.readFailed
          /\ WrittenWithin(fetch.pre, fetch.symbol, 5, fetch.started) # {}
       => /\ fetch.returned /\ fetch.result.cached
          /\ fetch.contacted = <<>>
          /\ \E i \in WrittenWithin(fetch.pre, fetch.symbol, 5, fetch.started) :
                /\ \A j \in 1..Len(fetch.pre) :
                      fetch.pre[j].symbol = fetch.symbol
                      => fetch.pre[j].last_updated <= fetch.pre[i].last_updated
                /\ fetch.result.currentPrice = fetch.pre[i].current_price
                /\ fetch.result.previousClose = fetch.pre[i].previous_close
                /\ fetch.result.dayHigh = fetch.pre[i].day_high
                /\ fetch.result.dayLow = fetch.pre[i].day_low
                /\ fetch.result.volume = fetch.pre[i].volume
    /\ FollowsLiveFetch
       => /\ fetch.returned /\ fetch.result.cached
          /\ fetch.contacted = <<>>
          /\ SameQuote(fetch.result, fetch.prev.result)

\* C17 witness: a second call, 4 minutes after the live fetch, was served
C17_Witness ==
    /\ FollowsLiveFetch
    /\ fetch.started - fetch.prev.at = 4
    /\ fetch.result.cached

Failed(response) == response.kind \in {"throws", "no result"}

\* C18: on a cache miss the endpoints are contacted in the order query1,
\* query2, quote page, each at most once and each only after all before it
\* failed; after the first parseable response none is contacted and every
\* field of the quote returned is taken from that response.
C18_EndpointsInOrder ==
    LET n == Len(fetch.contacted) IN
    /\ Len(fetch.responses) = n
    /\ n <= Len(Endpoints)
    /\ \A i \in 1..n : fetch.contacted[i] = Endpoints[i]
    /\ \A i \in 1..n : i < n => Failed(fetch.responses[i])
    /\ fetch.pc = "endpoint" => \A i \in 1..n : Failed(fetch.responses[i])
    /\ fetch.result.cached => n = 0
    /\ FetchDone /\ fetch.returned /\ ~fetch.result.cached
       => /\ n >= 1
          /\ fetch.responses[n].kind = "chart"
          /\ fetch.result.symbol = fetch.responses[n].symbol
          /\ fetch.result.currentPrice = fetch.responses[n].regularMarketPrice
          /\ fetch.result.previousClose = fetch.responses[n].previousClose
          /\ fetch.result.dayHigh = fetch.responses[n].regularMarketDayHigh
          /\ fetch.result.dayLow = fetch.responses[n].regularMarketDayLow
          /\ fetch.result.volume = fetch.responses[n].regularMarketVolume

\* C18 witness: the quote page answered after query1 and query2 had failed
C18_Witness ==
    /\ FetchDone /\ fetch.returned
    /\ fetch.contacted = Endpoints
    /\ fetch.responses[1] = Throws /\ fetch.responses[2] = NoResult

AllEndpointsFailed ==
    /\ FetchDone
    /\ Len(fetch.responses) = Len(Endpoints)
    /\ \A i \in 1..Len(fetch.responses) : Failed(fetch.responses[i])

\* C19: when every endpoint fails getSimpleStockData raises 'All endpoints
\* failed' and the stored quote rows are those of before the call.
C19_AllEndpointsFailed ==
    AllEndpointsFailed
    => /\ ~fetch.returned
       /\ fetch.error = "All endpoints failed"
       /\ quotes = fetch.pre

\* C19 witness: with useCache = true and a stale row in the cache, all
\* three endpoints failed
C19_Witness ==
    /\ AllEndpointsFailed
    /\ fetch.useCache
    /\ fetch.pre # <<>>

\* C20: a failure of the cache store during getSimpleStockData with
\* useCache = true, on the read or on the write, does not reach the caller:
\* the call goes on to the endpoints, and the only error it can end with is
\* that all of them failed.
C20_StoreFailureNotPropagated ==
    FetchDone /\ fetch.useCache
    => /\ fetch.readFailed => fetch.contacted # <<>>
       /\ ~fetch.returned => AllEndpointsFailed


\* query1 failed and query2 gave the quote that was returned
ServedBySecondary ==
    /\ FetchDone /\ fetch.returned /\ ~fetch.result.cached
    /\ Len(fetch.responses) = 2
    /\ Failed(fetch.responses[1])

\* C21: when query1 fails and query2 succeeds, query1 was asked before
\* query2 and the source of the returned quote differs from the source of a
\* quote that query1 served.
C21_SourceNamesEndpoint ==
    ServedBySecondary
    => /\ fetch.contacted = <<"query1", "query2">>
       /\ fetch.prev.written /\ fetch.prev.endpoints = 1
          => fetch.result.source # fetch.prev.result.source


\* C22: the quote store holds at most one row per symbol, and after a write
\* through cacheQuote that row holds the values written.
C22_OneQuoteRowPerSymbol ==
    /\ \A i, j \in 1..Len(quotes) : quotes[i].symbol = quotes[j].symbol => i = j
    /\ FetchDone /\ fetch.written
       => \A i \in 1..Len(quotes) :
             quotes[i].symbol = fetch.symbol
             => quotes[i] = QuoteRow(fetch.symbol, fetch.result, fetch.at)


\* the last bar of a list with the date of bar i
LastWithDate(bars, i) ==
    CHOOSE j \in i..Len(bars) :
       /\ bars[j].date = bars[i].date
       /\ \A k \in (j + 1)..Len(bars) : bars[k].date # bars[i].date

\* the bars of a table without the time they were written at
BarValues(tbl) == {[r EXCEPT !.created_at = <<>>] : r \in tbl}

SameBarsAgain ==
    /\ storeCall.name = "cacheHistoricalData"
    /\ storeCall'.name = "cacheHistoricalData"
    /\ storeCall'.n = storeCall.n + 1
    /\ storeCall'.symbol = storeCall.symbol
    /\ storeCall'.period = storeCall.period
    /\ storeCall'.interval = storeCall.interval
    /\ storeCall'.historicalData = storeCall.historicalData

\* C23: historical_data holds at most one row per (symbol, date, period,
\* interval); after cacheHistoricalData that row holds the values of the
\* last bar written for the key; and writing the bar list of the previous
\* call once more leaves the stored bars as they were.
C23_UpsertBars ==
    /\ [](/\ \A a, b \in historical_data :
                (\A f \in idx_historical_unique : a[f] = b[f]) => a = b
          /\ storeCall.name = "cacheHistoricalData"
             => \A i \in 1..Len(storeCall.historicalData) :
                   HistoricalRow(storeCall.symbol, storeCall.period, storeCall.interval,
                                 storeCall.historicalData[LastWithDate(storeCall.historicalData, i)],
                                 storeCall.at) \in historical_data)
    /\ [][SameBarsAgain => BarValues(historical_data') = BarValues(historical_data)]_vars

\* the same list, with two different bars of one date, written a second time
C23_Witness ==
    /\ storeCall.name = "cacheHistoricalData" /\ storeCall.n = 2
    /\ Len(storeCall.historicalData) = 2
    /\ storeCall.historicalData[1].date = storeCall.historicalData[2].date
    /\ storeCall.historicalData[1] # storeCall.historicalData[2]
    /\ BarValues(storeCall.pre.historical_data) = BarValues(historical_data)
    /\ Cardinality(historical_data) = 1


\* C24: a cleanExpiredCache call that resolves has deleted exactly the
\* cache_metadata rows whose expires_at lies before the time of the call, has
\* returned their number, and has left quotes and historical_data unchanged.
C24_CleanDeletesExpired ==
    storeCall.name = "cleanExpiredCache" /\ ~storeCall.rejected
    => LET expired == {r \in storeCall.pre.cache_metadata :
                          InstantBefore(r.expires_at, datetime(storeCall.at))}
       IN  /\ cache_metadata = storeCall.pre.cache_metadata \ expired
           /\ storeCall.answer = <<Cardinality(expired)>>
           /\ quotes = storeCall.pre.quotes
           /\ historical_data = storeCall.pre.historical_data


\* C25: compareStocks returns one entry per input symbol in input order; the
\* entry of a symbol whose fetch threw is {symbol, error} and the symbols
\* after it are fetched all the same; the fetch of a symbol starts only
\* after the entry of the symbol before it was pushed.
C25_OneEntryPerSymbol ==
    /\ [](/\ compare.pc = "done"
             => /\ Len(compare.stockData) = Len(compare.symbols)
                /\ fetch.n - compare.base = Len(compare.symbols)
                /\ \A i \in 1..Len(compare.symbols) :
                      compare.stockData[i].symbol[1] = compare.symbols[i]
          /\ compare.pc = "loop" => fetch.n - compare.base <= Len(compare.stockData) + 1)
    /\ [][Len(compare'.stockData) > Len(compare.stockData)
          => LET entry == compare'.stockData[Len(compare'.stockData)]
                 symbol == compare.symbols[Len(compare'.stockData)]
             IN  /\ fetch.symbol = symbol
                 /\ IF fetch.returned
                    THEN /\ entry.error = <<>>
                         /\ entry.currentPrice = fetch.result.currentPrice
                         /\ entry.cached = fetch.result.cached
                    ELSE /\ entry.error # <<>>
                         /\ entry.symbol = <<symbol>>]_vars

\* the first of two symbols failed, the second was fetched
C25_Witness ==
    /\ compare.pc = "done" /\ Len(compare.symbols) = 2
    /\ compare.stockData[1].error # <<>>
    /\ compare.stockData[2].error = <<>> /\ ~compare.stockData[2].cached


\* the entries of the search cache written less than an hour before t for
\* the query, whatever its case
WrittenWithinHour(tbl, query, t) ==
    {r \in tbl : /\ r.query.word = query.word
                 /\ t - InstantOf(r.created_at) < SearchTtlMinutes}

CacheRead == Len(search'.accessed) = 2 /\ Len(search.accessed) = 1

AskedOnline == \E i \in 1..Len(search.accessed) :
                  search.accessed[i] \notin {"local", "cache"}

\* C26: searchStocks reads the local index first, the search cache only
\* when the local index gave nothing, and asks a search endpoint only when
\* the local index gave nothing, the cache held no unexpired entry for the
\* query and online is true; with an empty index, no entry and online false
\* it asks no endpoint and returns an empty list.
C26_SearchSourcesInOrder ==
    /\ [](/\ search.accessed # <<>> => search.accessed[1] = "local"
          /\ Len(search.accessed) >= 2
             => /\ search.accessed[2] = "cache"
                /\ LocalResults(search.query, search.limit) = <<>>
          /\ AskedOnline => /\ Len(search.accessed) >= 3
                            /\ ~search.hit /\ search.online
                            /\ \A i \in 3..Len(search.accessed) :
                                  search.accessed[i] = SearchEndpoints[i - 2]
          /\ search.pc = "done" /\ ~search.rejected /\ ~search.hit
                /\ stocks = {} /\ ~search.online
             => /\ search.returned /\ search.answer.results = <<>>
                /\ search.accessed = <<"local", "cache">>)
    /\ [][CacheRead /\ search'.pc = "online"
          => WrittenWithinHour(search_cache, search.query, now) = {}]_vars

C26_Witness ==
    /\ search.pc = "done" /\ search.returned /\ ~search.hit
    /\ stocks = {} /\ ~search.online
    /\ search.answer.results = <<>>

\* C27: the search cache holds at most one entry per lowercased query; a
\* write replaces the entry of its query and dates it anew; a cached entry
\* is returned only within an hour of its last write.
C27_SearchCacheKeyedByQuery ==
    /\ [](\A a, b \in search_cache :
             /\ ~a.query.upper
             /\ a.query.word = b.query.word => a = b)
    /\ [][/\ search'.written /\ ~search.written
             => \E r \in search_cache' :
                   /\ r.query.word = search.query.word
                   /\ r.results = search.onlineResults
                   /\ r.created_at = datetime(now)
                   /\ WrittenWithinHour(search_cache', search.query, now) = {r}
          /\ CacheRead /\ search'.hit
             => \E r \in WrittenWithinHour(search_cache, search.query, now) :
                   search'.answer.results = slice(r.results, search.limit)]_vars

\* an entry is found under a query typed in upper case
C27_Witness ==
    /\ search.hit /\ search.query.upper
    /\ Cardinality(search_cache) = 1


\* C28: in both implementations updatePortfolioCurrentPrices is one batch:
\* a refresh that reports success has given every holding named in
\* stockPrices its new price, and one that reports failure has left the
\* holdings as they were.
C28_PriceUpdateAtomic ==
    \A p \in Procs :
        Done(p) /\ op[p].name = "refresh" /\ loc[p].stockPrices # <<>>
        => portfolio_holdings =
              IF res[p].success
              THEN UpdateCurrentPrices(pre[p].holdings, USER, loc[p].stockPrices,
                                       1..Len(loc[p].stockPrices))
              ELSE pre[p].holdings


\* C29: when signup is answered with success the user's wallet exists with
\* a balance of exactly 1,000,000 and the wallet-transaction log holds
\* exactly one row, a DEPOSIT of 1,000,000.
C29_SignupFundsWallet ==
    \A p \in Procs :
        Succeeded(p, "signup")
        => /\ Len(WalletRows(USER)) = 1 /\ Balance = initialBalance
           /\ wallet_transactions =
                 <<WalletTxRow(USER, "DEPOSIT", initialBalance, initialBalance)>>


\* what the rows of a wallet-transaction log add up to: deposits and sale
\* proceeds count positive, withdrawals and purchases negative
RECURSIVE LoggedBalance(_)
LoggedBalance(rows) ==
    IF rows = <<>> THEN 0
    ELSE LoggedBalance(Tail(rows))
         + (IF Head(rows).transaction_type \in {"DEPOSIT", "STOCK_SALE"}
            THEN Head(rows).amount ELSE -Head(rows).amount)

\* C30: under every interleaving of overlapping deposit, withdraw, buy and
\* sell calls, once every call has completed the wallet balance is what the
\* wallet-transaction log adds up to.
C30_BalanceMatchesLog ==
    (\A p \in Procs : ~Running(p)) => Balance = LoggedBalance(wallet_transactions)


\* the quantity the BUY and SELL rows of a stock-transaction log add up to
\* for symbol s
RECURSIVE LoggedQuantity(_, _)
LoggedQuantity(rows, s) ==
    IF rows = <<>> THEN 0
    ELSE LoggedQuantity(Tail(rows), s)
         + (IF Head(rows).symbol # s THEN 0
            ELSE IF Head(rows).transaction_type = "BUY"
            THEN Head(rows).quantity ELSE -Head(rows).quantity)

HeldQuantity(s) ==
    LET rows == HoldingRows(portfolio_holdings, USER, s)
    IN  IF rows = <<>> THEN 0 ELSE rows[1].quantity

\* C31: under every interleaving of overlapping buy and sell calls, once
\* every call has completed the held quantity of each symbol is what the
\* BUY and SELL rows of the stock-transaction log add up to, and no more
\* was sold than was bought.
C31_QuantityMatchesLog ==
    (\A p \in Procs : ~Running(p))
    => \A s \in Symbols :
          /\ HeldQuantity(s) = LoggedQuantity(stock_transactions, s)
          /\ LoggedQuantity(stock_transactions, s) >= 0

\* the call that just ended repeats, at once and with the cache, the call
\* before it, and that call obtained bars of pairwise distinct timestamps
\* from upstream and cached them
RepeatsCachedCall ==
    /\ hist.pc = "done" /\ hist.n = 2 /\ hist.useCache /\ ~hist.rejected
    /\ hist.prev.symbol = hist.symbol /\ hist.prev.period = hist.period
    /\ hist.prev.interval = hist.interval
    /\ hist.prev.written /\ hist.prev.returned /\ hist.prev.finished = hist.at
    /\ \A i, j \in 1..Len(hist.prev.bars) :
          i # j => hist.prev.bars[i].timestamp # hist.prev.bars[j].timestamp

\* C32: an immediate second getHistoricalData call with the same arguments,
\* after a first call obtained N bars of distinct timestamps from upstream
\* and cached them, is a cache hit that returns the same N bars (timestamps
\* and OHLCV) in the same order, also when several bars share a calendar date
C32_SecondCallReturnsSameBars ==
    RepeatsCachedCall => /\ hist.cached
                         /\ hist.bars = hist.prev.bars

\* C33: a cache hit of getHistoricalData returns only bars that were cached
\* for the interval of the request
C33_HitOnlySameInterval ==
    hist.cached => \A i \in 1..Len(hist.rows) : hist.rows[i].interval_type = hist.interval

\* the call that just ended repeats, at once, a call with the cache that
\* was served by the secondary endpoint
RepeatsFallbackCall ==
    /\ hist.pc = "done" /\ hist.n = 2 /\ hist.useCache /\ ~hist.rejected
    /\ hist.prev.symbol = hist.symbol /\ hist.prev.period = hist.period
    /\ hist.prev.interval = hist.interval
    /\ hist.prev.useCache /\ hist.prev.returned
    /\ hist.prev.contacted = <<"query1", "query2">>
    /\ hist.prev.finished = hist.at

\* C34: getHistoricalData asks the secondary endpoint only after the primary
\* threw and fails only when both failed; bars served by the secondary with
\* useCache are written through to the cache, so that an immediate identical
\* call is a cache hit
C34_FallbackWritesThrough ==
    /\ hist.contacted \in {<<>>, <<"query1">>, <<"query1", "query2">>}
    /\ hist.failed => hist.contacted = <<"query1", "query2">>
    /\ RepeatsFallbackCall => hist.cached

\* the price of the row a successful order appended to stock_transactions
ExecutedPrice == stock_transactions[Len(stock_transactions)].price

\* C35: buyStock and sellStock take the caller's price without a fetch when
\* one is given, else the currentPrice getSimpleStockData returned; when the
\* fetch throws or yields no currentPrice the order fails and the wallet,
\* the holdings and both logs are as they were
C35_PriceResolution ==
    \A p \in Procs :
        Done(p) /\ op[p].name \in {"buy", "sell"}
        => /\ op[p].pricePerShare # 0
              => /\ loc[p].fetches = 0
                 /\ res[p].success => ExecutedPrice = op[p].pricePerShare
           /\ op[p].pricePerShare = 0 /\ res[p].success
              => /\ loc[p].fetches = 1
                 /\ ExecutedPrice = loc[p].fetched
           /\ loc[p].fetches = 1 /\ loc[p].fetched \in {-1, 0}
              => /\ ~res[p].success
                 /\ user_wallets = pre[p].wallets
                 /\ LedgerUnchanged(p)

\* C35 witness: a sell of a held stock without a price, for which the fetch
\* yielded no currentPrice
C35_Witness ==
    \E p \in Procs :
        /\ Done(p) /\ op[p].name = "sell" /\ op[p].pricePerShare = 0
        /\ loc[p].fetches = 1 /\ loc[p].fetched = 0
        /\ pre[p].holdings # <<>>

\* C36: with buys and sells one after the other, every holdings row has
\* average_price * quantity = invested_amount in exact arithmetic
C36_AverageTimesQuantity ==
    \A i \in 1..Len(portfolio_holdings) :
        LET h == portfolio_holdings[i] IN
        /\ h.average_price[2] > 0 /\ h.invested_amount[2] > 0
        /\ h.average_price[1] * h.quantity * h.invested_amount[2]
              = h.invested_amount[1] * h.average_price[2]

\* C36 witness: a sale left part of a holding whose average price is not a
\* whole number
C36_Witness ==
    \E p \in Procs :
        /\ Succeeded(p, "sell") /\ HeldNow(p) # <<>>
        /\ HeldNow(p)[1].average_price[2] # 1

\* C37: every answer of searchStocks has resultsCount = the number of
\* entries of results, and at most `limit` entries, from whichever source
C37_CountMatchesResults ==
    search.returned
    => /\ search.answer.resultsCount = Len(search.answer.results)
       /\ Len(search.answer.results) <= search.limit

\* the attempts for the address of the last signin that were on record when
\* it began: all of them, and the failed ones less than 15 minutes old
AttemptsBefore ==
    SelectSeq(auth.pre, LAMBDA r : r.email.word = auth.email.word)
RecentFailuresBefore ==
    SelectSeq(AttemptsBefore, LAMBDA r : /\ ~r.success
                                         /\ auth.at - InstantOf(r.attempted_at)
                                               < LOCKOUT_DURATION_MINUTES)

\* C38: with 5 or more failed attempts for an email on record from the last
\* 15 minutes, signin is rejected and issues no tokens even with the correct
\* password; once 15 minutes have passed without any attempt for the email,
\* signin with the correct password succeeds and clears the recorded failures
C38_LockoutAndRelease ==
    auth.n > 0
    => /\ Len(RecentFailuresBefore) >= MAX_LOGIN_ATTEMPTS
          => /\ ~auth.tokens
             /\ auth.error = "Account temporarily locked"
       /\ (/\ auth.correct /\ auth.email.word = "ann"
           /\ \A i \in 1..Len(AttemptsBefore) :
                 auth.at - InstantOf(AttemptsBefore[i].attempted_at) >= LOCKOUT_DURATION_MINUTES)
          => /\ auth.tokens
             /\ \A i \in 1..Len(login_attempts) :
                   login_attempts[i].email.word = "ann" => login_attempts[i].success

\* C38 witness: ann signs in after a lockout in which a signin with the
\* correct password was rejected
C38_Witness ==
    /\ auth.n > 0 /\ auth.tokens /\ auth.email.word = "ann"
    /\ Len(SelectSeq(AttemptsBefore, LAMBDA r : ~r.success)) > MAX_LOGIN_ATTEMPTS

====
